---------------------------- MODULE Spec2Model ----------------------------
(***************************************************************************)
(* A model of the position-proposal operations of SourceDocument           *)
(* (src/src/SourceDocument.ts) and of the symbol helpers they use          *)
(* (src/src/ProposedPosition.ts).                                          *)
(*                                                                         *)
(* Documents are sequences of lines, a line is a sequence of one-character *)
(* strings, a position is [line, character] (both 0-based, as in the       *)
(* editor API) and a range is [start, end].                                *)
(***************************************************************************)
EXTENDS Integers, Sequences, FiniteSets, TLC

(***************************************************************************)
(* Bounds of the model.                                                    *)
(***************************************************************************)
\* Longest sibling list of the declaration in SpecSiblings.
MaxSiblings == 13
\* Longest sibling list of the declaration in SpecFunctionDefinition.
MaxNearSiblings == 3
\* Deepest chain of enclosing scopes of the declaration.
MaxScopes == 2
\* Most semicolons that directly follow a definition in the target document.
MaxSemis == 2
\* Most lines of the document of findPositionForNewInclude.
MaxIncludeLines == 5

\* The longest text given to findPositionForNewHeaderGuard, in characters.
MaxTextLength == 6

\* The longest text given to hasHeaderGuard, in tokens.
MaxPragmaTokens == 4

\* The most top-level symbols of the document given to hasHeaderGuard.
MaxGuardSymbols == 2

\* The most children of the top-level symbol given to the SourceSymbol constructor.
MaxChildren == 3

\* The longest text before the symbol given to getTrueStart, in tokens.
MaxTokensBefore == 5

\* The lookups of the navigation that are counted in one isPrimitive call.
MaxLookups == 3

\* The lines of the document a text is inserted in.
MaxDocumentLines == 2

\* The parameters of a parameter list stripDefaultValues is given.
MaxParameters == 3

\* The lines of the document above a symbol.
MaxLinesAbove == 3

\* The most items in the body of a class: access specifiers and members.
MaxMembers == 3

(***************************************************************************)
(* Generic helpers.                                                        *)
(***************************************************************************)
Max(a, b) == IF a >= b THEN a ELSE b

Min(a, b) == IF a <= b THEN a ELSE b

\* A value for "undefined".
None == [none |-> TRUE]

Pos(l, c) == [line |-> l, character |-> c]

Rng(s, e) == [start |-> s, end |-> e]

RECURSIVE Concat(_)
\* The concatenation of a sequence of sequences.
Concat(ss) == IF ss = <<>> THEN <<>> ELSE Head(ss) \o Concat(Tail(ss))

SeqsUpTo(S, n) == UNION {[1..k -> S] : k \in 0..n}

IsPrefix(s, t) == Len(s) <= Len(t) /\ \A i \in 1..Len(s) : s[i] = t[i]

\* Body(value), the value computed once.
Once(value, Body(_)) == CHOOSE result \in {Body(v) : v \in {value}} : TRUE

(***************************************************************************)
(* vscode.TextDocument: the operations of the editor's document that the   *)
(* code calls, on a document given as its sequence of lines.               *)
(***************************************************************************)
IsWhitespaceChar(c) == c \in {" ", "\t", "\n"}

\* TextLine.isEmptyOrWhitespace
IsEmptyOrWhitespace(line) == \A i \in 1..Len(line) : IsWhitespaceChar(line[i])

\* TextLine.range.end
LineEnd(lines, l) == Pos(l, Len(lines[l + 1]))

RECURSIVE OffsetOfLine(_, _)
\* The offset of the first character of line l: every line before it counts
\* its characters and its end-of-line character.
OffsetOfLine(lines, l) ==
    IF l = 0 THEN 0 ELSE OffsetOfLine(lines, l - 1) + Len(lines[l]) + 1

\* TextDocument.offsetAt
OffsetAt(lines, p) == OffsetOfLine(lines, p.line) + Min(p.character, Len(lines[p.line + 1]))

RECURSIVE PositionAtFrom(_, _, _)
PositionAtFrom(lines, l, off) ==
    IF l = Len(lines) - 1 \/ off <= Len(lines[l + 1])
    THEN Pos(l, Min(off, Len(lines[l + 1])))
    ELSE PositionAtFrom(lines, l + 1, off - Len(lines[l + 1]) - 1)

\* TextDocument.positionAt
PositionAt(lines, off) == PositionAtFrom(lines, 0, off)

\* The whole text: the lines joined by the end-of-line character.
DocText(lines) ==
    Concat([i \in 1..Len(lines) |-> IF i = 1 THEN lines[i] ELSE <<"\n">> \o lines[i]])

\* TextDocument.getText(range)
GetText(lines, r) ==
    LET text == DocText(lines)
        from == OffsetAt(lines, r.start)
        to == OffsetAt(lines, r.end)
    IN  IF to <= from THEN <<>> ELSE SubSeq(text, from + 1, to)

RECURSIVE IndexOfFrom(_, _, _)
IndexOfFrom(s, c, i) ==
    IF i > Len(s) THEN -1
    ELSE IF s[i] = c THEN i - 1
    ELSE IndexOfFrom(s, c, i + 1)

\* String.indexOf: the 0-based index of the first c in s, -1 when there is none.
IndexOf(s, c) == IndexOfFrom(s, c, 1)

(***************************************************************************)
(* The target document of findPositionForFunctionDefinition.  It is given  *)
(* by its top-level items; the text and the symbol tree that the document  *)
(* symbol provider reports for it are both derived from the items, so that *)
(* every range of a symbol is a range of the text.                         *)
(*   blank         a line of whitespace                                    *)
(*   text          a line that holds no symbol (a comment, a directive)    *)
(*   fn            f{} followed by `semis` semicolons, on one line         *)
(*   ns            a namespace `name`; its opening brace is on the same or *)
(*                 on the next line, and it is empty, holds one function,  *)
(*                 holds two functions (the last followed by `semis`       *)
(*                 semicolons), or holds one empty namespace with the      *)
(*                 other name                                              *)
(***************************************************************************)
NamespaceNames == {"A", "B"}

OtherName(n) == IF n = "A" THEN "B" ELSE "A"

SemisChoices == {0, MaxSemis}

TargetItemChoices ==
    {[k |-> kind, name |-> "", content |-> "empty", semis |-> 0, brace |-> "same"] :
            kind \in {"blank", "text"}}
    \cup {[k |-> "fn", name |-> "f", content |-> "empty", semis |-> s, brace |-> "same"] :
            s \in SemisChoices}
    \cup {[k |-> "ns", name |-> n, content |-> "empty", semis |-> 0, brace |-> b] :
            n \in NamespaceNames, b \in {"same", "next"}}
    \cup {[k |-> "ns", name |-> n, content |-> "fn", semis |-> 0, brace |-> "same"] :
            n \in NamespaceNames}
    \cup {[k |-> "ns", name |-> n, content |-> "fns", semis |-> MaxSemis, brace |-> "same"] :
            n \in NamespaceNames}
    \cup {[k |-> "ns", name |-> n, content |-> "ns", semis |-> 0, brace |-> "same"] :
            n \in NamespaceNames}

Semis(n) == [i \in 1..n |-> ";"]

FnText == <<"f", "{", "}">>

GnText == <<"g", "{", "}">>

ContentText(item) ==
    CASE item.content = "empty" -> <<>>
      [] item.content = "fn" -> FnText \o Semis(item.semis)
      [] item.content = "fns" -> FnText \o GnText \o Semis(item.semis)
      [] item.content = "ns" -> <<OtherName(item.name), "{", "}">>

\* The lines of one item.
ItemLines(item) ==
    CASE item.k = "blank" -> << <<" ">> >>
      [] item.k = "text" -> << <<"x">> >>
      [] item.k = "fn" -> << FnText \o Semis(item.semis) >>
      [] item.k = "ns" ->
            IF item.brace = "same"
            THEN << <<item.name, "{">> \o ContentText(item) \o <<"}">> >>
            ELSE << <<item.name>>, <<"{">> \o ContentText(item) \o <<"}">> >>

\* The lines of the document: a document always has at least one line.
ItemsLines(items) ==
    IF items = <<>> THEN << <<>> >>
    ELSE Concat([i \in 1..Len(items) |-> ItemLines(items[i])])

RECURSIVE ItemStartLine(_, _)
\* The line on which item i (1-based) starts.
ItemStartLine(items, i) ==
    IF i = 1 THEN 0 ELSE ItemStartLine(items, i - 1) + Len(ItemLines(items[i - 1]))

Sym(name, kind, range, children) ==
    [name |-> name, kind |-> kind, range |-> range, children |-> children]

\* The symbol the provider reports for an item that starts on line l.  A symbol's
\* range does not include the semicolons that follow it.
ItemSymbol(item, l) ==
    IF item.k = "fn"
    THEN Sym("f", "Function", Rng(Pos(l, 0), Pos(l, Len(FnText))), <<>>)
    ELSE LET bl == IF item.brace = "same" THEN l ELSE l + 1
             \* the column of the opening brace
             bc == IF item.brace = "same" THEN 1 ELSE 0
             last == Len(ItemLines(item)[Len(ItemLines(item))])
             kid == CASE item.content = "empty" -> <<>>
                      [] item.content = "fn" ->
                            << Sym("f", "Function",
                                   Rng(Pos(bl, bc + 1), Pos(bl, bc + 1 + Len(FnText))), <<>>) >>
                      [] item.content = "fns" ->
                            << Sym("f", "Function",
                                   Rng(Pos(bl, bc + 1), Pos(bl, bc + 1 + Len(FnText))), <<>>),
                               Sym("g", "Function",
                                   Rng(Pos(bl, bc + 1 + Len(FnText)),
                                       Pos(bl, bc + 1 + Len(FnText) + Len(GnText))), <<>>) >>
                      [] item.content = "ns" ->
                            << Sym(OtherName(item.name), "Namespace",
                                   Rng(Pos(bl, bc + 1), Pos(bl, bc + 4)), <<>>) >>
         IN  Sym(item.name, "Namespace", Rng(Pos(l, 0), Pos(bl, last)), kid)

RECURSIVE ItemsSymbolsFrom(_, _)
ItemsSymbolsFrom(items, i) ==
    IF i > Len(items) THEN <<>>
    ELSE (IF items[i].k \in {"blank", "text"} THEN <<>>
          ELSE << ItemSymbol(items[i], ItemStartLine(items, i)) >>)
         \o ItemsSymbolsFrom(items, i + 1)

\* SourceFile.executeSourceSymbolProvider on the target document: its top-level
\* symbols, in source order.
ExecuteSourceSymbolProvider(items) == ItemsSymbolsFrom(items, 1)

(***************************************************************************)
(* Symbols.                                                                *)
(***************************************************************************)
\* Position.isBeforeOrEqual
PosLeq(p, q) == p.line < q.line \/ (p.line = q.line /\ p.character <= q.character)

\* Range.contains(position)
RangeContains(r, p) == PosLeq(r.start, p) /\ PosLeq(p, r.end)

IsFunctionKind(kind) == kind \in {"Operator", "Method", "Constructor", "Function"}

\* SourceSymbol.matches
Matches(a, b) ==
    a.name = b.name /\ (a.kind = b.kind \/ (IsFunctionKind(a.kind) /\ IsFunctionKind(b.kind)))

RECURSIVE GetEndOfStatement(_, _)
\* SourceDocument.getEndOfStatement: moves over the semicolons at the position.
\* The text of a range that reaches over the end of the line is empty.
GetEndOfStatement(lines, p) ==
    LET line == lines[p.line + 1]
        next == IF p.character < Len(line) THEN <<line[p.character + 1]>> ELSE <<>>
    IN  IF next = <<";">>
        THEN GetEndOfStatement(lines, Pos(p.line, p.character + 1))
        ELSE p

\* util.getEndOfStatement, which the constructor of CSymbol applies to the end of
\* the range.
UtilGetEndOfStatement(lines, p) == GetEndOfStatement(lines, p)

\* new CSymbol(symbol, document): the symbol with its range extended over the
\* semicolons that follow it.
CSymbolOf(lines, sym) ==
    [sym EXCEPT !.range = Rng(sym.range.start, UtilGetEndOfStatement(lines, sym.range.end))]

RECURSIVE SearchSymbolTree(_, _, _)
\* The symbol of the tree at a position: the innermost symbol whose range holds it.
SearchSymbolTree(symbols, p, i) ==
    IF i > Len(symbols) THEN None
    ELSE IF ~RangeContains(symbols[i].range, p) THEN SearchSymbolTree(symbols, p, i + 1)
    ELSE IF symbols[i].children = <<>> THEN symbols[i]
    ELSE SearchSymbolTree(symbols[i].children, p, 1)

\* SourceDocument.getSymbol(position)
GetSymbol(lines, symbols, p) ==
    LET found == SearchSymbolTree(symbols, p, 1)
    IN  IF found = None THEN None ELSE CSymbolOf(lines, found)

RECURSIVE SearchMatchingSymbol(_, _, _)
\* The first symbol of the tree, parents before children, that matches the target.
SearchMatchingSymbol(symbols, target, i) ==
    IF i > Len(symbols) THEN None
    ELSE IF Matches(symbols[i], target) THEN symbols[i]
    ELSE LET below == SearchMatchingSymbol(symbols[i].children, target, 1)
         IN  IF below # None THEN below ELSE SearchMatchingSymbol(symbols, target, i + 1)

\* SourceDocument.findMatchingSymbol(target)
FindMatchingSymbol(lines, symbols, target) ==
    LET found == SearchMatchingSymbol(symbols, target, 1)
    IN  IF found = None THEN None ELSE CSymbolOf(lines, found)

(***************************************************************************)
(* State.                                                                  *)
(***************************************************************************)
VARIABLES
    \* findPositionForFunctionDefinition(declaration, targetDoc): the inputs
    declInThis,       \* declaration.uri.path = this.uri.path
    siblingSymbols,   \* declaration.parent.children, or this.symbols: their ranges
    declRange,        \* declaration.range
    scopes,           \* declaration.scopes(): outermost first, declaration.parent last
    targetGiven,      \* a targetDoc other than this document was passed
    targetLoaded,     \* targetDoc.symbols is set
    targetItems,      \* the content of the target document
    \* findPositionForFunctionDefinition: the call in progress
    pc,               \* where the call is
    before,           \* the siblings to probe before the declaration, as indexes
    after,            \* the siblings to probe after the declaration, as indexes
    cursor,           \* the 1-based position in the loop that pc names
    result,           \* the ProposedPosition returned
    \* history of the call
    queried,          \* the siblings findDefinition was called on, in call order
    hit,              \* the sibling lookup that produced the result
    nsUsed,           \* the 1-based index in scopes of the namespace that produced the result
    returnedAt,       \* the return statement that produced the result
    \* findPositionForNewInclude: the document and the call in progress
    incLines,                   \* the lines of the document, each a sequence of tokens
    incSymbolLines,             \* the start lines of this.symbols (the code reads the first)
    incPc,                      \* where the call is
    incI,                       \* the line the scan is at
    systemIncludeStart,         \* the start of the open block of system includes
    projectIncludeStart,        \* the start of the open block of project includes
    largestSystemIncludeBlock,
    largestProjectIncludeBlock,
    incResult,                  \* the {system, project} positions returned
    \* findPositionForNewHeaderGuard: the document and the call
    hgText,           \* this.text(), a sequence of characters
    hgPc,             \* where the call is
    hgResult,         \* the ProposedPosition returned
    \* hasHeaderGuard: the document and the call in progress
    guardTokens,      \* this.text(), a sequence of tokens
    guardSymbols,     \* this.symbols: None while it is not set, else [list |-> the symbols]
    guardProvided,    \* what executeSourceSymbolProvider returns for the document
    guardPc,          \* where the call is
    guardResult       \* the boolean returned

fdVars == <<declInThis, siblingSymbols, declRange, scopes, targetGiven, targetLoaded,
            targetItems, pc, before, after, cursor, result, queried, hit, nsUsed, returnedAt>>

incVars == <<incLines, incSymbolLines, incPc, incI, systemIncludeStart, projectIncludeStart,
             largestSystemIncludeBlock, largestProjectIncludeBlock, incResult>>

hgVars == <<hgText, hgPc, hgResult>>

guardVars == <<guardTokens, guardSymbols, guardProvided, guardPc, guardResult>>

\* No call of findPositionForFunctionDefinition.
FunctionDefinitionIdle ==
    /\ declInThis = FALSE /\ siblingSymbols = <<>> /\ declRange = 0 /\ scopes = <<>>
    /\ targetGiven = FALSE /\ targetLoaded = FALSE /\ targetItems = <<>>
    /\ pc = "idle" /\ before = <<>> /\ after = <<>> /\ cursor = 1
    /\ result = None /\ queried = <<>> /\ hit = None /\ nsUsed = 0
    /\ returnedAt = "none"

\* No call of findPositionForNewInclude.
IncludeIdle ==
    /\ incLines = << <<>> >> /\ incSymbolLines = <<>>
    /\ incPc = "idle" /\ incI = 0
    /\ systemIncludeStart = None /\ projectIncludeStart = None
    /\ largestSystemIncludeBlock = None /\ largestProjectIncludeBlock = None
    /\ incResult = None

\* No call of findPositionForNewHeaderGuard.
HeaderGuardPositionIdle == hgText = <<>> /\ hgPc = "idle" /\ hgResult = None

\* No call of hasHeaderGuard.
HasHeaderGuardIdle ==
    /\ guardTokens = <<>> /\ guardSymbols = None /\ guardProvided = <<>>
    /\ guardPc = "idle" /\ guardResult = None

\* The state of the operations modelled further below, one group for each.
VARIABLES
    \* new SourceSymbol(symbol, uri): the provider's symbol and the tree built from it
    rawSymbol,            \* a top-level DocumentSymbol as the provider reported it
    treePc,               \* where the construction is
    sourceSymbol          \* the SourceSymbol built from it

treeVars == <<rawSymbol, treePc, sourceSymbol>>

\* No call of the SourceSymbol constructor.
SymbolTreeIdle ==
    /\ rawSymbol = None
    /\ treePc = "idle"
    /\ sourceSymbol = None

VARIABLES
    \* CSymbol.getTrueStart: the text before the symbol and the calls made
    textBefore,           \* the text from the start of the document to range.start, as tokens
    trueStartPc,          \* how many calls were made
    trueStart,            \* this.trueStart, None while it is not set
    trueStartResult       \* the position the last call returned

trueStartVars == <<textBefore, trueStartPc, trueStart, trueStartResult>>

\* No call of getTrueStart.
TrueStartIdle ==
    /\ textBefore = <<>>
    /\ trueStartPc = "idle"
    /\ trueStart = None
    /\ trueStartResult = None

VARIABLES
    \* SourceSymbol.isConstructor: the symbol asked and the answer
    reported,             \* the DocumentSymbol of the provider and the one it is a child of, if any
    isConstructorPc,      \* where the call is
    askedSymbol,          \* the SourceSymbol built for it
    isConstructorResult   \* the boolean returned

isConstructorVars == <<reported, isConstructorPc, askedSymbol, isConstructorResult>>

\* No call of isConstructor.
IsConstructorIdle ==
    /\ reported = None
    /\ isConstructorPc = "idle"
    /\ askedSymbol = None
    /\ isConstructorResult = None

VARIABLES
    \* CSymbol.isPrimitive, alone or awaited by Setter.create: the types declared, the symbol asked and the calls in progress
    declared,             \* the declaration of each type name the navigation can reach, None for a name it misses
    resolveTypes,         \* cfg.resolveTypes()
    asked,                \* the symbol isPrimitive was first called on
    forSetter,            \* the call is the one Setter.create awaits
    current,              \* the symbol of the innermost isPrimitive call
    isPrimitivePc,        \* where the innermost call is
    resolveOffset,        \* the offset handed to resolveThisType
    lookups,              \* the calls of findDefintions made so far, counted up to MaxLookups
    lastTarget,           \* what the last lookup found: None, or the symbol at the first location
    isPrimitiveResult,    \* what the outermost call returned: None, or [returns |-> the boolean]
    parameter             \* None, or [text |-> setter.parameter]

isPrimitiveVars == <<declared, resolveTypes, asked, forSetter, current, isPrimitivePc, resolveOffset, lookups, lastTarget, isPrimitiveResult, parameter>>

\* No call of isPrimitive and Setter.create.
IsPrimitiveIdle ==
    /\ declared = <<>>
    /\ resolveTypes = FALSE
    /\ asked = None
    /\ forSetter = FALSE
    /\ current = None
    /\ isPrimitivePc = "idle"
    /\ resolveOffset = 0
    /\ lookups = 0
    /\ lastTarget = None
    /\ isPrimitiveResult = None
    /\ parameter = None

VARIABLES
    \* updateSignature: the function it is called on, the symbol at the linked location, the alerts and the edits
    currentFunction,      \* the function whose signature changed
    symbolAtLinkedLocation, \* what linkedDoc.getSymbol finds at linkedLocation: None, or the symbol
    linkedFunction,       \* linkedFunction, once getSymbol has returned
    updateSignaturePc,    \* where updateSignature is
    alerts,               \* the messages handed to logger.alertError
    appliedEdits,         \* the edits handed to vscode.workspace.applyEdit
    updateSignatureResult \* None while nothing is returned, else [returns |-> the value], None for undefined

updateSignatureVars == <<currentFunction, symbolAtLinkedLocation, linkedFunction, updateSignaturePc, alerts, appliedEdits, updateSignatureResult>>

\* No call of updateSignature.
UpdateSignatureIdle ==
    /\ currentFunction = None
    /\ symbolAtLinkedLocation = None
    /\ linkedFunction = None
    /\ updateSignaturePc = "idle"
    /\ alerts = <<>>
    /\ appliedEdits = <<>>
    /\ updateSignatureResult = None

VARIABLES
    \* the operations of one SourceDocument that load its symbols, running interleaved
    cacheDocument,        \* what the text of the document holds: [pragmaOnce, includes]
    operationPc,          \* where each operation is: idle, start, awaiting or done
    cachedSymbols,        \* this.symbols: None for undefined, else [list |-> the symbols]
    providerCalls,        \* the calls of executeSourceSymbolProvider
    replacements          \* the assignments to this.symbols made when it was set

symbolCacheVars == <<cacheDocument, operationPc, cachedSymbols, providerCalls, replacements>>

\* No call of the lazy loading of SourceDocument.symbols.
SymbolCacheIdle ==
    /\ cacheDocument = None
    /\ operationPc = [operation \in {} |-> "idle"]
    /\ cachedSymbols = None
    /\ providerCalls = 0
    /\ replacements = 0

VARIABLES
    \* formatTextToInsert: its arguments and what it returned
    formatDocument,       \* the lines of sourceDoc, each [indentation, content]
    formatPosition,       \* the ProposedPosition: its line and its options
    insertText,           \* the text to insert, a sequence of tokens
    formatPc,             \* where formatTextToInsert is
    formattedText         \* None, or [text |-> the tokens returned]

formatVars == <<formatDocument, formatPosition, insertText, formatPc, formattedText>>

\* No call of formatTextToInsert.
FormatTextIdle ==
    /\ formatDocument = <<>>
    /\ formatPosition = None
    /\ insertText = <<>>
    /\ formatPc = "idle"
    /\ formattedText = None

VARIABLES
    \* CSymbol.newFunctionDeclaration and CSymbol.newFunctionDefinition: the symbol, the text around it and what they returned
    functionSymbol,       \* the symbol the methods are called on
    textBeforeFunction,   \* the text of the document before the symbol
    scopeString,          \* what scopeString(targetDoc, position) resolves to
    newDeclaration,       \* None, or [text |-> what newFunctionDeclaration returned]
    newDefinition,        \* None, or [text |-> what newFunctionDefinition returned]
    counterpart,          \* the declaration bodyStart is given: None, or [isConstructor |-> what its isConstructor() answers]
    bodyStartResult       \* None, or [index |-> the index bodyStart returned]

newFunctionVars == <<functionSymbol, textBeforeFunction, scopeString, newDeclaration, newDefinition, counterpart, bodyStartResult>>

\* No call of newFunctionDeclaration and newFunctionDefinition.
NewFunctionIdle ==
    /\ functionSymbol = None
    /\ textBeforeFunction = <<>>
    /\ scopeString = <<>>
    /\ newDeclaration = None
    /\ newDefinition = None
    /\ counterpart = None
    /\ bodyStartResult = None

VARIABLES
    \* CSymbol.stripDefaultValues: the parameters given and what it returns
    givenParameters,      \* the parameters of the list, each [declarator, spacing, value] with value None when it has no default value
    stripPc,              \* how many times it was applied
    strippedOnce,         \* None, or [text |-> what stripDefaultValues returns for the list]
    strippedTwice         \* None, or [text |-> what it returns for that result]

stripVars == <<givenParameters, stripPc, strippedOnce, strippedTwice>>

\* No call of stripDefaultValues.
StripDefaultValuesIdle ==
    /\ givenParameters = <<>>
    /\ stripPc = "idle"
    /\ strippedOnce = None
    /\ strippedTwice = None

VARIABLES
    \* CSymbol.getLeadingCommentStart: the lines above the symbol and the calls made
    linesAbove,           \* the lines of the document above the line of the symbol, each a sequence of tokens
    leadingCommentPc,     \* how many calls were made
    headerCommentStart,   \* this.headerCommentStart, None while it is not set
    leadingCommentResult  \* the position the last call returned

leadingCommentVars == <<linesAbove, leadingCommentPc, headerCommentStart, leadingCommentResult>>

\* No call of getLeadingCommentStart.
LeadingCommentIdle ==
    /\ linesAbove = <<>>
    /\ leadingCommentPc = "idle"
    /\ headerCommentStart = None
    /\ leadingCommentResult = None

VARIABLES
    \* CodeActionProvider.provideCodeActions: the symbol at the selection, the document, and the actions the two builders return
    selectedSymbol,       \* what sourceDoc.getSymbol found: [found |-> FALSE], or [found |-> TRUE, symbol |-> the symbol]
    documentIsHeader,     \* sourceDoc.isHeader()
    documentIsCpp,        \* sourceDoc.isCpp()
    hasMatchingUri,       \* getMatchingSourceFile found a file
    navigation,           \* what the lookups of getRefactorings answered, None before it ran
    refactorings,         \* None, or [family, actions] that getRefactorings returned
    guardResolved,        \* None, or [value |-> what the promise of hasHeaderGuard resolves to]
    sourceActions         \* None, or [actions |-> what getSourceActions returned]

codeActionVars == <<selectedSymbol, documentIsHeader, documentIsCpp, hasMatchingUri, navigation, refactorings, guardResolved, sourceActions>>

\* No call of provideCodeActions.
CodeActionsIdle ==
    /\ selectedSymbol = None
    /\ documentIsHeader = FALSE
    /\ documentIsCpp = FALSE
    /\ hasMatchingUri = FALSE
    /\ navigation = None
    /\ refactorings = None
    /\ guardResolved = None
    /\ sourceActions = None

VARIABLES
    \* CSymbol.findPositionForNewMemberFunction: the symbol it is called on, its arguments and what it returned
    ownerKind,            \* the kind of the symbol
    ownerBody,            \* the access specifiers and children of its body, in the order of the text
    ownerStartOffset,     \* startOffset() of the symbol
    relativeName,         \* relativeName, the empty string when it is not given
    relativeIsSetter,     \* relativeName is the setter name of the memberVariable given
    memberPc,             \* where the call is
    memberPosition        \* None, or the ProposedPosition returned

memberFunctionVars == <<ownerKind, ownerBody, ownerStartOffset, relativeName, relativeIsSetter, memberPc, memberPosition>>

\* No call of findPositionForNewMemberFunction.
MemberFunctionIdle ==
    /\ ownerKind = "Class"
    /\ ownerBody = <<>>
    /\ ownerStartOffset = 0
    /\ relativeName = ""
    /\ relativeIsSetter = FALSE
    /\ memberPc = "idle"
    /\ memberPosition = None

moreVars == <<treeVars, trueStartVars, isConstructorVars, isPrimitiveVars, updateSignatureVars, symbolCacheVars, formatVars, newFunctionVars, stripVars, leadingCommentVars, codeActionVars, memberFunctionVars>>

MoreIdle ==
    /\ SymbolTreeIdle
    /\ TrueStartIdle
    /\ IsConstructorIdle
    /\ IsPrimitiveIdle
    /\ UpdateSignatureIdle
    /\ SymbolCacheIdle
    /\ FormatTextIdle
    /\ NewFunctionIdle
    /\ StripDefaultValuesIdle
    /\ LeadingCommentIdle
    /\ CodeActionsIdle
    /\ MemberFunctionIdle

\* Nothing but the SourceSymbol constructor is running.
OnlySymbolTree == UNCHANGED <<fdVars, incVars, hgVars, guardVars, trueStartVars, isConstructorVars, isPrimitiveVars, updateSignatureVars, symbolCacheVars, formatVars, newFunctionVars, stripVars, leadingCommentVars, codeActionVars, memberFunctionVars>>

IdleButSymbolTree ==
    /\ FunctionDefinitionIdle
    /\ IncludeIdle
    /\ HeaderGuardPositionIdle
    /\ HasHeaderGuardIdle
    /\ TrueStartIdle
    /\ IsConstructorIdle
    /\ IsPrimitiveIdle
    /\ UpdateSignatureIdle
    /\ SymbolCacheIdle
    /\ FormatTextIdle
    /\ NewFunctionIdle
    /\ StripDefaultValuesIdle
    /\ LeadingCommentIdle
    /\ CodeActionsIdle
    /\ MemberFunctionIdle

\* Nothing but getTrueStart is running.
OnlyTrueStart == UNCHANGED <<fdVars, incVars, hgVars, guardVars, treeVars, isConstructorVars, isPrimitiveVars, updateSignatureVars, symbolCacheVars, formatVars, newFunctionVars, stripVars, leadingCommentVars, codeActionVars, memberFunctionVars>>

IdleButTrueStart ==
    /\ FunctionDefinitionIdle
    /\ IncludeIdle
    /\ HeaderGuardPositionIdle
    /\ HasHeaderGuardIdle
    /\ SymbolTreeIdle
    /\ IsConstructorIdle
    /\ IsPrimitiveIdle
    /\ UpdateSignatureIdle
    /\ SymbolCacheIdle
    /\ FormatTextIdle
    /\ NewFunctionIdle
    /\ StripDefaultValuesIdle
    /\ LeadingCommentIdle
    /\ CodeActionsIdle
    /\ MemberFunctionIdle

\* Nothing but isConstructor is running.
OnlyIsConstructor == UNCHANGED <<fdVars, incVars, hgVars, guardVars, treeVars, trueStartVars, isPrimitiveVars, updateSignatureVars, symbolCacheVars, formatVars, newFunctionVars, stripVars, leadingCommentVars, codeActionVars, memberFunctionVars>>

IdleButIsConstructor ==
    /\ FunctionDefinitionIdle
    /\ IncludeIdle
    /\ HeaderGuardPositionIdle
    /\ HasHeaderGuardIdle
    /\ SymbolTreeIdle
    /\ TrueStartIdle
    /\ IsPrimitiveIdle
    /\ UpdateSignatureIdle
    /\ SymbolCacheIdle
    /\ FormatTextIdle
    /\ NewFunctionIdle
    /\ StripDefaultValuesIdle
    /\ LeadingCommentIdle
    /\ CodeActionsIdle
    /\ MemberFunctionIdle

\* Nothing but isPrimitive and Setter.create is running.
OnlyIsPrimitive == UNCHANGED <<fdVars, incVars, hgVars, guardVars, treeVars, trueStartVars, isConstructorVars, updateSignatureVars, symbolCacheVars, formatVars, newFunctionVars, stripVars, leadingCommentVars, codeActionVars, memberFunctionVars>>

IdleButIsPrimitive ==
    /\ FunctionDefinitionIdle
    /\ IncludeIdle
    /\ HeaderGuardPositionIdle
    /\ HasHeaderGuardIdle
    /\ SymbolTreeIdle
    /\ TrueStartIdle
    /\ IsConstructorIdle
    /\ UpdateSignatureIdle
    /\ SymbolCacheIdle
    /\ FormatTextIdle
    /\ NewFunctionIdle
    /\ StripDefaultValuesIdle
    /\ LeadingCommentIdle
    /\ CodeActionsIdle
    /\ MemberFunctionIdle

\* Nothing but updateSignature is running.
OnlyUpdateSignature == UNCHANGED <<fdVars, incVars, hgVars, guardVars, treeVars, trueStartVars, isConstructorVars, isPrimitiveVars, symbolCacheVars, formatVars, newFunctionVars, stripVars, leadingCommentVars, codeActionVars, memberFunctionVars>>

IdleButUpdateSignature ==
    /\ FunctionDefinitionIdle
    /\ IncludeIdle
    /\ HeaderGuardPositionIdle
    /\ HasHeaderGuardIdle
    /\ SymbolTreeIdle
    /\ TrueStartIdle
    /\ IsConstructorIdle
    /\ IsPrimitiveIdle
    /\ SymbolCacheIdle
    /\ FormatTextIdle
    /\ NewFunctionIdle
    /\ StripDefaultValuesIdle
    /\ LeadingCommentIdle
    /\ CodeActionsIdle
    /\ MemberFunctionIdle

\* Nothing but the lazy loading of SourceDocument.symbols is running.
OnlySymbolCache == UNCHANGED <<fdVars, incVars, hgVars, guardVars, treeVars, trueStartVars, isConstructorVars, isPrimitiveVars, updateSignatureVars, formatVars, newFunctionVars, stripVars, leadingCommentVars, codeActionVars, memberFunctionVars>>

IdleButSymbolCache ==
    /\ FunctionDefinitionIdle
    /\ IncludeIdle
    /\ HeaderGuardPositionIdle
    /\ HasHeaderGuardIdle
    /\ SymbolTreeIdle
    /\ TrueStartIdle
    /\ IsConstructorIdle
    /\ IsPrimitiveIdle
    /\ UpdateSignatureIdle
    /\ FormatTextIdle
    /\ NewFunctionIdle
    /\ StripDefaultValuesIdle
    /\ LeadingCommentIdle
    /\ CodeActionsIdle
    /\ MemberFunctionIdle

\* Nothing but formatTextToInsert is running.
OnlyFormatText == UNCHANGED <<fdVars, incVars, hgVars, guardVars, treeVars, trueStartVars, isConstructorVars, isPrimitiveVars, updateSignatureVars, symbolCacheVars, newFunctionVars, stripVars, leadingCommentVars, codeActionVars, memberFunctionVars>>

IdleButFormatText ==
    /\ FunctionDefinitionIdle
    /\ IncludeIdle
    /\ HeaderGuardPositionIdle
    /\ HasHeaderGuardIdle
    /\ SymbolTreeIdle
    /\ TrueStartIdle
    /\ IsConstructorIdle
    /\ IsPrimitiveIdle
    /\ UpdateSignatureIdle
    /\ SymbolCacheIdle
    /\ NewFunctionIdle
    /\ StripDefaultValuesIdle
    /\ LeadingCommentIdle
    /\ CodeActionsIdle
    /\ MemberFunctionIdle

\* Nothing but newFunctionDeclaration and newFunctionDefinition is running.
OnlyNewFunction == UNCHANGED <<fdVars, incVars, hgVars, guardVars, treeVars, trueStartVars, isConstructorVars, isPrimitiveVars, updateSignatureVars, symbolCacheVars, formatVars, stripVars, leadingCommentVars, codeActionVars, memberFunctionVars>>

IdleButNewFunction ==
    /\ FunctionDefinitionIdle
    /\ IncludeIdle
    /\ HeaderGuardPositionIdle
    /\ HasHeaderGuardIdle
    /\ SymbolTreeIdle
    /\ TrueStartIdle
    /\ IsConstructorIdle
    /\ IsPrimitiveIdle
    /\ UpdateSignatureIdle
    /\ SymbolCacheIdle
    /\ FormatTextIdle
    /\ StripDefaultValuesIdle
    /\ LeadingCommentIdle
    /\ CodeActionsIdle
    /\ MemberFunctionIdle

\* Nothing but stripDefaultValues is running.
OnlyStripDefaultValues == UNCHANGED <<fdVars, incVars, hgVars, guardVars, treeVars, trueStartVars, isConstructorVars, isPrimitiveVars, updateSignatureVars, symbolCacheVars, formatVars, newFunctionVars, leadingCommentVars, codeActionVars, memberFunctionVars>>

IdleButStripDefaultValues ==
    /\ FunctionDefinitionIdle
    /\ IncludeIdle
    /\ HeaderGuardPositionIdle
    /\ HasHeaderGuardIdle
    /\ SymbolTreeIdle
    /\ TrueStartIdle
    /\ IsConstructorIdle
    /\ IsPrimitiveIdle
    /\ UpdateSignatureIdle
    /\ SymbolCacheIdle
    /\ FormatTextIdle
    /\ NewFunctionIdle
    /\ LeadingCommentIdle
    /\ CodeActionsIdle
    /\ MemberFunctionIdle

\* Nothing but getLeadingCommentStart is running.
OnlyLeadingComment == UNCHANGED <<fdVars, incVars, hgVars, guardVars, treeVars, trueStartVars, isConstructorVars, isPrimitiveVars, updateSignatureVars, symbolCacheVars, formatVars, newFunctionVars, stripVars, codeActionVars, memberFunctionVars>>

IdleButLeadingComment ==
    /\ FunctionDefinitionIdle
    /\ IncludeIdle
    /\ HeaderGuardPositionIdle
    /\ HasHeaderGuardIdle
    /\ SymbolTreeIdle
    /\ TrueStartIdle
    /\ IsConstructorIdle
    /\ IsPrimitiveIdle
    /\ UpdateSignatureIdle
    /\ SymbolCacheIdle
    /\ FormatTextIdle
    /\ NewFunctionIdle
    /\ StripDefaultValuesIdle
    /\ CodeActionsIdle
    /\ MemberFunctionIdle

\* Nothing but provideCodeActions is running.
OnlyCodeActions == UNCHANGED <<fdVars, incVars, hgVars, guardVars, treeVars, trueStartVars, isConstructorVars, isPrimitiveVars, updateSignatureVars, symbolCacheVars, formatVars, newFunctionVars, stripVars, leadingCommentVars, memberFunctionVars>>

IdleButCodeActions ==
    /\ FunctionDefinitionIdle
    /\ IncludeIdle
    /\ HeaderGuardPositionIdle
    /\ HasHeaderGuardIdle
    /\ SymbolTreeIdle
    /\ TrueStartIdle
    /\ IsConstructorIdle
    /\ IsPrimitiveIdle
    /\ UpdateSignatureIdle
    /\ SymbolCacheIdle
    /\ FormatTextIdle
    /\ NewFunctionIdle
    /\ StripDefaultValuesIdle
    /\ LeadingCommentIdle
    /\ MemberFunctionIdle

\* Nothing but findPositionForNewMemberFunction is running.
OnlyMemberFunction == UNCHANGED <<fdVars, incVars, hgVars, guardVars, treeVars, trueStartVars, isConstructorVars, isPrimitiveVars, updateSignatureVars, symbolCacheVars, formatVars, newFunctionVars, stripVars, leadingCommentVars, codeActionVars>>

IdleButMemberFunction ==
    /\ FunctionDefinitionIdle
    /\ IncludeIdle
    /\ HeaderGuardPositionIdle
    /\ HasHeaderGuardIdle
    /\ SymbolTreeIdle
    /\ TrueStartIdle
    /\ IsConstructorIdle
    /\ IsPrimitiveIdle
    /\ UpdateSignatureIdle
    /\ SymbolCacheIdle
    /\ FormatTextIdle
    /\ NewFunctionIdle
    /\ StripDefaultValuesIdle
    /\ LeadingCommentIdle
    /\ CodeActionsIdle

vars == <<fdVars, incVars, hgVars, guardVars, moreVars>>

targetLines == ItemsLines(targetItems)

\* targetDoc.symbols once it is set.
targetSymbols == ExecuteSourceSymbolProvider(targetItems)

(***************************************************************************)
(* findPositionForFunctionDefinition                                       *)
(***************************************************************************)
Proposed(value, isBefore, isAfter, isNextTo, isEmptyScope) ==
    [value |-> value, before |-> isBefore, after |-> isAfter,
     nextTo |-> isNextTo, emptyScope |-> isEmptyScope]

RECURSIVE RelativeSymbolIndexFrom(_, _, _)
RelativeSymbolIndexFrom(siblings, range, i) ==
    IF i >= Len(siblings) THEN i
    ELSE IF siblings[i + 1] = range THEN i
    ELSE RelativeSymbolIndexFrom(siblings, range, i + 1)

\* The 0-based index of the first sibling whose range equals the range of the
\* declaration; the number of siblings when there is none.
RelativeSymbolIndex(siblings, range) == RelativeSymbolIndexFrom(siblings, range, 0)

\* Array.slice(from, to) of the indexes 0 .. n-1
SliceIndexes(n, from, to) == [i \in 1..Max(Min(to, n) - from, 0) |-> from + i - 1]

Reverse(s) == [i \in 1..Len(s) |-> s[Len(s) + 1 - i]]

\* A slice that starts one sibling too late.
SliceStartShort(index) == Max(index - 4, 0)

SliceStart(index) == Max(index - 5, 0)

SliceEnd(index, n) == Min(index + 6, n)

\* The siblings before the declaration in source order: the loop without reverse().
BeforeSiblingsForward(siblings, range) ==
    LET index == RelativeSymbolIndex(siblings, range)
    IN  SliceIndexes(Len(siblings), SliceStart(index), index)

\* before.reverse(): the order in which the loop visits the siblings before the declaration
BeforeSiblings(siblings, range) ==
    LET index == RelativeSymbolIndex(siblings, range)
    IN  Reverse(SliceIndexes(Len(siblings), SliceStart(index), index))

\* the order in which the loop visits the siblings after the declaration
AfterSiblings(siblings, range) ==
    LET index == RelativeSymbolIndex(siblings, range)
    IN  SliceIndexes(Len(siblings), index + 1, SliceEnd(index, Len(siblings)))

\* The loop that runs next, given that the loops before it are over.
LoopAfter(phase, bef, aft) ==
    CASE phase = "begin" /\ bef # <<>> -> "before"
      [] phase \in {"begin", "before"} /\ ~(phase = "begin" /\ bef # <<>>) /\ aft # <<>> -> "after"
      [] phase \in {"begin", "before", "after"}
            /\ ~(phase = "begin" /\ bef # <<>>)
            /\ ~(phase \in {"begin", "before"} /\ aft # <<>>)
            /\ scopes # <<>> -> "namespace"
      [] OTHER -> "fallback"

\* the answers of the navigation oracle to findDefinition
DefinitionLocations ==
    {None} \cup {[uri |-> "other", pos |-> Pos(0, 0)]}
    \cup {[uri |-> "target", pos |-> Pos(l, c)] :
            l \in 0..(Len(targetLines) - 1), c \in {0, 2, 6}}

\* A stand-in for PositionAfterDefinition that proposes the start of the definition.
PositionAfterDefinitionAtStart(definition) ==
    Proposed(definition.range.start, FALSE, TRUE, FALSE, FALSE)

\* The position returned for a definition found for a sibling before the declaration.
PositionAfterDefinition(definition) ==
    Proposed(GetEndOfStatement(targetLines, definition.range.end), FALSE, TRUE, FALSE, FALSE)

\* The position returned for a definition found for a sibling after the declaration.
PositionBeforeDefinition(definition) ==
    Proposed(definition.range.start, TRUE, FALSE, FALSE, FALSE)

\* The position returned for the namespace of the target document that matches a scope.
PositionInNamespace(targetNamespace) ==
    IF targetNamespace.children = <<>>
    THEN LET bodyStart == OffsetAt(targetLines, targetNamespace.range.start)
                          + IndexOf(GetText(targetLines, targetNamespace.range), "{") + 1
         IN  Proposed(PositionAt(targetLines, bodyStart), FALSE, TRUE, TRUE, TRUE)
    ELSE Proposed(GetEndOfStatement(targetLines,
                      targetNamespace.children[Len(targetNamespace.children)].range.end),
                  FALSE, TRUE, FALSE, FALSE)

RECURSIVE LastNonEmptyLineFrom(_, _)
\* The last line at or before line i that is not blank; -1 when there is none.
LastNonEmptyLineFrom(lines, i) ==
    IF i < 0 THEN -1
    ELSE IF ~IsEmptyOrWhitespace(lines[i + 1]) THEN i
    ELSE LastNonEmptyLineFrom(lines, i - 1)

\* The position returned for a target document that has no symbols.
PositionInEmptyTarget(lines) ==
    LET i == LastNonEmptyLineFrom(lines, Len(lines) - 1)
    IN  IF i >= 0 THEN Proposed(LineEnd(lines, i), FALSE, TRUE, FALSE, FALSE)
        ELSE Proposed(Pos(0, 0), FALSE, FALSE, FALSE, FALSE)

\* Lines 74-110: the early returns, the load of the symbols, the choice of the siblings.
FindPositionBegin ==
    /\ pc = "start"
    /\ queried' = queried /\ hit' = hit /\ nsUsed' = nsUsed
    /\ UNCHANGED <<declInThis, siblingSymbols, declRange, scopes, targetGiven, targetItems>>
    /\ IF ~declInThis \/ (scopes = <<>> /\ siblingSymbols = <<>>)
       THEN /\ result' = Proposed(Pos(0, 0), FALSE, FALSE, FALSE, FALSE)
            /\ pc' = "done" /\ returnedAt' = "notInDocument"
            /\ UNCHANGED <<targetLoaded, before, after, cursor>>
       ELSE IF targetGiven /\ ~targetLoaded /\ targetSymbols = <<>>
       THEN /\ targetLoaded' = TRUE
            /\ result' = PositionInEmptyTarget(targetLines)
            /\ pc' = "done" /\ returnedAt' = "emptyTarget"
            /\ UNCHANGED <<before, after, cursor>>
       ELSE /\ targetLoaded' = TRUE
            /\ before' = BeforeSiblings(siblingSymbols, declRange)
            /\ after' = AfterSiblings(siblingSymbols, declRange)
            /\ cursor' = 1
            /\ pc' = LoopAfter("begin", before', after')
            /\ UNCHANGED <<result, returnedAt>>

\* The end of one pass of a loop that returned nothing.
Continue(phase, length) ==
    IF cursor < length
    THEN cursor' = cursor + 1 /\ pc' = pc
    ELSE cursor' = 1 /\ pc' = LoopAfter(phase, before, after)

\* Lines 113-123: one pass of the loop over the siblings before the declaration.
LookupBefore ==
    /\ pc = "before"
    /\ \E definitionLocation \in DefinitionLocations :
         LET definition == IF definitionLocation = None \/ definitionLocation.uri # "target"
                           THEN None
                           ELSE GetSymbol(targetLines, targetSymbols, definitionLocation.pos)
         IN  /\ queried' = Append(queried, before[cursor])
             /\ IF definition # None
                THEN /\ result' = PositionAfterDefinition(definition)
                     /\ hit' = [side |-> "before", sibling |-> before[cursor],
                                pos |-> definitionLocation.pos]
                     /\ pc' = "done" /\ returnedAt' = "before"
                     /\ cursor' = cursor
                ELSE /\ Continue("before", Len(before))
                     /\ UNCHANGED <<result, hit, returnedAt>>
    /\ UNCHANGED <<declInThis, siblingSymbols, declRange, scopes, targetGiven, targetLoaded,
                   targetItems, before, after, nsUsed>>

\* Lines 124-134: one pass of the loop over the siblings after the declaration.
LookupAfter ==
    /\ pc = "after"
    /\ \E definitionLocation \in DefinitionLocations :
         LET definition == IF definitionLocation = None \/ definitionLocation.uri # "target"
                           THEN None
                           ELSE GetSymbol(targetLines, targetSymbols, definitionLocation.pos)
         IN  /\ queried' = Append(queried, after[cursor])
             /\ IF definition # None
                THEN /\ result' = PositionBeforeDefinition(definition)
                     /\ hit' = [side |-> "after", sibling |-> after[cursor],
                                pos |-> definitionLocation.pos]
                     /\ pc' = "done" /\ returnedAt' = "after"
                     /\ cursor' = cursor
                ELSE /\ Continue("after", Len(after))
                     /\ UNCHANGED <<result, hit, returnedAt>>
    /\ UNCHANGED <<declInThis, siblingSymbols, declRange, scopes, targetGiven, targetLoaded,
                   targetItems, before, after, nsUsed>>

\* The scopes visited outermost first: the loop without reverse().
ScopeIndexForward(n, k) == k

\* declaration.scopes().reverse(): the 1-based index in scopes of the scope that
\* pass k of the loop visits.
ScopeIndex(n, k) == n + 1 - k

\* Lines 137-154: one pass of the loop over declaration.scopes().reverse().
LookupNamespace ==
    /\ pc = "namespace"
    /\ LET index == ScopeIndex(Len(scopes), cursor)
           scope == scopes[index]
           targetNamespace == IF scope.kind = "Namespace"
                              THEN FindMatchingSymbol(targetLines, targetSymbols, scope)
                              ELSE None
       IN  IF targetNamespace # None
           THEN /\ result' = PositionInNamespace(targetNamespace)
                /\ nsUsed' = index
                /\ pc' = "done" /\ returnedAt' = "namespace"
                /\ cursor' = cursor
           ELSE /\ Continue("namespace", Len(scopes))
                /\ UNCHANGED <<result, nsUsed, returnedAt>>
    /\ UNCHANGED <<declInThis, siblingSymbols, declRange, scopes, targetGiven, targetLoaded,
                   targetItems, before, after, queried, hit>>

\* Lines 157-160: the position after the last symbol of the target document.  The
\* last element of an empty array is undefined, and reading its range throws.
PositionAfterLastSymbol ==
    /\ pc = "fallback"
    /\ IF targetSymbols = <<>>
       THEN pc' = "threw" /\ UNCHANGED <<result, returnedAt>>
       ELSE /\ pc' = "done" /\ returnedAt' = "lastSymbol"
            /\ result' = Proposed(GetEndOfStatement(targetLines,
                                      targetSymbols[Len(targetSymbols)].range.end),
                                  FALSE, TRUE, FALSE, FALSE)
    /\ UNCHANGED <<declInThis, siblingSymbols, declRange, scopes, targetGiven, targetLoaded,
                   targetItems, before, after, cursor, queried, hit, nsUsed>>

\* The other operations are not running.
OnlyFunctionDefinition == UNCHANGED <<incVars, hgVars, guardVars, moreVars>>

NextFunctionDefinition ==
    \/ FindPositionBegin /\ OnlyFunctionDefinition
    \/ LookupBefore /\ OnlyFunctionDefinition
    \/ LookupAfter /\ OnlyFunctionDefinition
    \/ LookupNamespace /\ OnlyFunctionDefinition
    \/ PositionAfterLastSymbol /\ OnlyFunctionDefinition

ScopeChoices ==
    {[kind |-> "Namespace", name |-> n] : n \in NamespaceNames}
    \cup {[kind |-> "Class", name |-> "A"]}

\* The state of a call that has not started.
FunctionDefinitionCall ==
    /\ pc = "start"
    /\ before = <<>> /\ after = <<>> /\ cursor = 1
    /\ result = None /\ queried = <<>> /\ hit = None /\ nsUsed = 0
    /\ returnedAt = "none"

\* The siblings are in source order and their ranges differ; a declaration that
\* has a parent is one of the children of the parent; a call without a target
\* document is about this document, whose symbols are then already loaded and
\* are the siblings of a top-level declaration, or include its outermost scope.
\* The siblings are kept as their ranges alone (what the code reads of them), here
\* the numbers 1 .. n.
InitInputs(maxSiblings, targetDocs) ==
    /\ declInThis \in BOOLEAN
    /\ \E n \in 0..maxSiblings :
         /\ siblingSymbols = [i \in 1..n |-> i]
         /\ declRange \in (IF n = 0 THEN {0} ELSE 1..n)
    /\ scopes \in SeqsUpTo(ScopeChoices, MaxScopes)
    /\ scopes # <<>> => siblingSymbols # <<>>
    /\ targetGiven \in BOOLEAN
    /\ targetLoaded \in BOOLEAN
    /\ targetItems \in targetDocs
    /\ ~targetGiven =>
          /\ targetLoaded
          /\ targetSymbols # <<>>
          /\ scopes = <<>> => Len(siblingSymbols) = Len(targetSymbols)
          /\ \A i \in 1..Len(scopes) :
                scopes[i].kind = "Namespace" =>
                    \E j \in 1..Len(targetSymbols) :
                        /\ Matches(targetSymbols[j], scopes[i])
                        /\ targetSymbols[j].children # <<>>

\* A target document with a function followed by semicolons and a namespace.
SiblingsTarget ==
    << [k |-> "fn", name |-> "f", content |-> "empty", semis |-> MaxSemis, brace |-> "same"],
       [k |-> "ns", name |-> "A", content |-> "empty", semis |-> 0, brace |-> "same"] >>

\* The target documents: the empty one, those of one top-level item, and the one
\* of two symbols.
TargetDocuments ==
    {<<>>, SiblingsTarget} \cup {<<item>> : item \in TargetItemChoices}

\* Few siblings, every target document.
InitFunctionDefinition ==
    /\ InitInputs(MaxNearSiblings, TargetDocuments)
    /\ FunctionDefinitionCall
    /\ IncludeIdle
    /\ HeaderGuardPositionIdle
    /\ HasHeaderGuardIdle
    /\ MoreIdle

SpecFunctionDefinition == InitFunctionDefinition /\ [][NextFunctionDefinition]_vars

\* Many siblings, one target document.
InitSiblings ==
    /\ InitInputs(MaxSiblings, {SiblingsTarget})
    /\ FunctionDefinitionCall
    /\ IncludeIdle
    /\ HeaderGuardPositionIdle
    /\ HasHeaderGuardIdle
    /\ MoreIdle

SpecSiblings == InitSiblings /\ [][NextFunctionDefinition]_vars

(***************************************************************************)
(* findPositionForNewInclude.  A line of the document is a sequence of      *)
(* tokens: the directive `#include` is one token, every other token is one *)
(* character.                                                              *)
(***************************************************************************)
SystemIncludeLine == <<"#include", " ", "<", "a", ">">>

ProjectIncludeLine == <<"#include", " ", "\"", "a", "\"">>

\* A line that is no directive and ends in a string literal.
StringTailLine == <<"s", "=", "\"", "a", "\"">>

CodeLine == <<"x", ";">>

BlankLine == <<" ">>

IncludeLineChoices ==
    {SystemIncludeLine, ProjectIncludeLine, StringTailLine, CodeLine, BlankLine}

\* The number of characters of a token.
TokenLength(t) == IF t = "#include" THEN 8 ELSE 1

RECURSIVE TokensLength(_)
TokensLength(line) == IF line = <<>> THEN 0 ELSE TokenLength(Head(line)) + TokensLength(Tail(line))

\* TextLine.range.end of line i
IncludeLineEnd(lines, i) == Pos(i, TokensLength(lines[i + 1]))

RECURSIVE TrimStart(_)
TrimStart(line) ==
    IF line # <<>> /\ IsWhitespaceChar(Head(line)) THEN TrimStart(Tail(line)) ELSE line

\* String.trim
Trim(line) == Reverse(TrimStart(Reverse(TrimStart(line))))

\* /^#include\s*(<.+>)/: the directive at the start, whitespace, then an angle
\* bracket group that holds one character or more.
MatchesIncludeAngle(line) ==
    /\ line # <<>>
    /\ line[1] = "#include"
    /\ \E i \in 2..Len(line) :
         /\ \A w \in 2..(i - 1) : IsWhitespaceChar(line[w])
         /\ line[i] = "<"
         /\ \E j \in (i + 2)..Len(line) : line[j] = ">"

\* /(".+")$/: a quoted group that holds one character or more, at the end.
MatchesQuoteAtEnd(line) ==
    /\ line # <<>>
    /\ line[Len(line)] = "\""
    /\ \E i \in 1..(Len(line) - 2) : line[i] = "\""

\* /^#include\s*(<.+>)|(".+")$/ on the trimmed line: the alternation splits the
\* whole pattern, so the second alternative does not ask for the directive.
MatchesIncludeRegex(line) ==
    MatchesIncludeAngle(Trim(line)) \/ MatchesQuoteAtEnd(Trim(line))

\* /<.+>/
MatchesAngle(line) ==
    \E i \in 1..Len(line) : line[i] = "<" /\ \E j \in (i + 2)..Len(line) : line[j] = ">"

\* /".+"/
MatchesQuote(line) ==
    \E i \in 1..Len(line) : line[i] = "\"" /\ \E j \in (i + 2)..Len(line) : line[j] = "\""

\* r > largest on two Range objects: the operator converts both objects to
\* primitives, each becomes the string "[object Object]", and a string is not
\* greater than itself.
RangeGreater(r, largest) == FALSE

\* largestBlock(line, start, largest), with line.range.start = (i, 0)
LargestBlock(i, start, largest) ==
    LET r == Rng(start, Pos(i, 0))
    IN  IF largest = None \/ RangeGreater(r, largest) THEN r ELSE largest

\* Lines 178-205: one pass of the scan over the lines.
ScanIncludeLine ==
    /\ incPc = "scan"
    /\ LET line == incLines[incI + 1]
           start == Pos(incI, 0)
       IN  IF ~MatchesIncludeRegex(line)
           THEN IF systemIncludeStart # None
                THEN /\ largestSystemIncludeBlock' =
                            LargestBlock(incI, systemIncludeStart, largestSystemIncludeBlock)
                     /\ systemIncludeStart' = None
                     /\ UNCHANGED <<projectIncludeStart, largestProjectIncludeBlock>>
                ELSE IF projectIncludeStart # None
                THEN /\ largestProjectIncludeBlock' =
                            LargestBlock(incI, projectIncludeStart, largestProjectIncludeBlock)
                     /\ projectIncludeStart' = None
                     /\ UNCHANGED <<systemIncludeStart, largestSystemIncludeBlock>>
                ELSE UNCHANGED <<systemIncludeStart, projectIncludeStart,
                                 largestSystemIncludeBlock, largestProjectIncludeBlock>>
           ELSE IF MatchesAngle(line)
           THEN /\ systemIncludeStart' =
                        IF systemIncludeStart = None THEN start ELSE systemIncludeStart
                /\ IF projectIncludeStart # None
                   THEN /\ largestProjectIncludeBlock' =
                               LargestBlock(incI, projectIncludeStart, largestProjectIncludeBlock)
                        /\ projectIncludeStart' = None
                   ELSE UNCHANGED <<projectIncludeStart, largestProjectIncludeBlock>>
                /\ UNCHANGED largestSystemIncludeBlock
           ELSE IF MatchesQuote(line)
           THEN /\ projectIncludeStart' =
                        IF projectIncludeStart = None THEN start ELSE projectIncludeStart
                /\ IF systemIncludeStart # None
                   THEN /\ largestSystemIncludeBlock' =
                               LargestBlock(incI, systemIncludeStart, largestSystemIncludeBlock)
                        /\ systemIncludeStart' = None
                   ELSE UNCHANGED <<systemIncludeStart, largestSystemIncludeBlock>>
                /\ UNCHANGED largestProjectIncludeBlock
           ELSE UNCHANGED <<systemIncludeStart, projectIncludeStart,
                            largestSystemIncludeBlock, largestProjectIncludeBlock>>
    /\ incI' = incI + 1
    /\ incPc' = IF incI + 1 < Len(incLines) THEN "scan" ELSE "choose"
    /\ UNCHANGED <<incLines, incSymbolLines, incResult>>

\* The line the search for a non-blank line starts on, when there are symbols.
StartLineOfSymbols(symbolLines) == symbolLines[1]

RECURSIVE LastNonBlankLineFrom(_, _)
\* Lines 235-240: the last line at or before line i that is not blank; -1 when
\* there is none.
LastNonBlankLineFrom(lines, i) ==
    IF i < 0 THEN -1
    ELSE IF ~IsEmptyOrWhitespace(lines[i + 1]) THEN i
    ELSE LastNonBlankLineFrom(lines, i - 1)

\* Lines 225-242: the positions when no block of includes was found.
PositionWithoutIncludes(lines, symbolLines) ==
    LET startLineNum == IF symbolLines = <<>> THEN Len(lines) - 1
                        ELSE StartLineOfSymbols(symbolLines)
        i == LastNonBlankLineFrom(lines, startLineNum)
    IN  IF i >= 0
        THEN [system |-> IncludeLineEnd(lines, i), project |-> IncludeLineEnd(lines, i)]
        ELSE [system |-> Pos(0, 0), project |-> Pos(0, 0)]

\* Lines 207-243: the choice of the positions after the scan.
ChooseIncludePositions ==
    /\ incPc = "choose"
    /\ LET systemIncludePos ==
               IF largestSystemIncludeBlock # None THEN largestSystemIncludeBlock.end
               ELSE IF largestProjectIncludeBlock # None THEN largestProjectIncludeBlock.end
               ELSE None
           projectIncludePos ==
               IF largestProjectIncludeBlock # None THEN largestProjectIncludeBlock.end
               ELSE IF largestSystemIncludeBlock # None THEN largestSystemIncludeBlock.end
               ELSE None
       IN  incResult' = IF systemIncludePos # None /\ projectIncludePos # None
                        THEN [system |-> systemIncludePos, project |-> projectIncludePos]
                        ELSE PositionWithoutIncludes(incLines, incSymbolLines)
    /\ incPc' = "done"
    /\ UNCHANGED <<incLines, incSymbolLines, incI, systemIncludeStart, projectIncludeStart,
                   largestSystemIncludeBlock, largestProjectIncludeBlock>>

\* The other operations are not running.
OnlyInclude == UNCHANGED <<fdVars, hgVars, guardVars, moreVars>>

NextInclude ==
    \/ ScanIncludeLine /\ OnlyInclude
    \/ ChooseIncludePositions /\ OnlyInclude

\* A symbol starts on a line of code; the first symbol is the one that starts first.
InitInclude ==
    /\ incLines \in SeqsUpTo(IncludeLineChoices, MaxIncludeLines) \ {<<>>}
    /\ \E starts \in {<<>>} \cup
            {<<l>> : l \in {i \in 0..(Len(incLines) - 1) :
                                incLines[i + 1] \in {CodeLine, StringTailLine}}} :
         incSymbolLines = starts
    /\ incPc = "scan" /\ incI = 0
    /\ systemIncludeStart = None /\ projectIncludeStart = None
    /\ largestSystemIncludeBlock = None /\ largestProjectIncludeBlock = None
    /\ incResult = None
    /\ FunctionDefinitionIdle
    /\ HeaderGuardPositionIdle
    /\ HasHeaderGuardIdle
    /\ MoreIdle

SpecInclude == InitInclude /\ [][NextInclude]_vars

(***************************************************************************)
(* findPositionForNewHeaderGuard.  The text is a sequence of characters;   *)
(* an index into it is 1-based, an offset of the document is 0-based.      *)
(***************************************************************************)
TextChars == {"/", "*", "x", " ", "\n"}

\* The text with the characters from .. to replaced by spaces.
MaskRange(text, from, to) ==
    [i \in 1..Len(text) |-> IF from <= i /\ i <= to THEN " " ELSE text[i]]

\* One step of the group (\*(?=\/)|[^*]) at index p: a star that a slash follows,
\* or a character that is no star.
MatchesBlockCommentBody(text, p) ==
    /\ p <= Len(text)
    /\ \/ text[p] = "*" /\ p + 1 <= Len(text) /\ text[p + 1] = "/"
       \/ text[p] # "*"

\* The number of steps the group can take from index p on.
RECURSIVE BlockCommentBodyRun(_, _)
BlockCommentBodyRun(text, p) ==
    IF MatchesBlockCommentBody(text, p) THEN 1 + BlockCommentBodyRun(text, p + 1) ELSE 0

\* /\/\*(\*(?=\/)|[^*])*\*\// tried at index s: the index of the last character
\* of the match, 0 when there is none.  The group is greedy and gives steps back
\* one at a time until `*/` follows.
BlockCommentMatchEnd(text, s) ==
    IF ~(s + 1 <= Len(text) /\ text[s] = "/" /\ text[s + 1] = "*") THEN 0
    ELSE LET run == BlockCommentBodyRun(text, s + 2)
             closing == {n \in 0..run : /\ s + 3 + n <= Len(text)
                                        /\ text[s + 2 + n] = "*"
                                        /\ text[s + 3 + n] = "/"}
         IN  IF closing = {} THEN 0
             ELSE s + 3 + (CHOOSE n \in closing : \A m \in closing : m <= n)

\* replace(/\/\*(\*(?=\/)|[^*])*\*\//g, match => ' '.repeat(match.length)) from index s on.
RECURSIVE MaskBlockComments(_, _)
MaskBlockComments(text, s) ==
    IF s > Len(text) THEN text
    ELSE LET e == BlockCommentMatchEnd(text, s)
         IN  IF e = 0 THEN MaskBlockComments(text, s + 1)
             ELSE MaskBlockComments(MaskRange(text, s, e), e + 1)

\* The index of the last character of the line that index s is on.
RECURSIVE EndOfLineIndex(_, _)
EndOfLineIndex(text, s) ==
    IF s + 1 <= Len(text) /\ text[s + 1] # "\n" THEN EndOfLineIndex(text, s + 1) ELSE s

\* replace(/\/\/.*/g, match => ' '.repeat(match.length)) from index s on.
RECURSIVE MaskLineComments(_, _)
MaskLineComments(text, s) ==
    IF s > Len(text) THEN text
    ELSE IF s + 1 <= Len(text) /\ text[s] = "/" /\ text[s + 1] = "/"
         THEN LET e == EndOfLineIndex(text, s + 1)
              IN  MaskLineComments(MaskRange(text, s, e), e + 1)
         ELSE MaskLineComments(text, s + 1)

MaskedText(text) == MaskLineComments(MaskBlockComments(text, 1), 1)

\* match(/\S/).index: the offset of the first character that is no whitespace,
\* -1 when there is no match.
FirstNonWhitespaceOffset(text) ==
    LET found == {i \in 1..Len(text) : ~IsWhitespaceChar(text[i])}
    IN  IF found = {} THEN -1
        ELSE (CHOOSE i \in found : \A j \in found : i <= j) - 1

\* trimEnd().length
TrimEndLength(text) ==
    LET found == {i \in 1..Len(text) : ~IsWhitespaceChar(text[i])}
    IN  IF found = {} THEN 0 ELSE CHOOSE i \in found : \A j \in found : j <= i

\* document.positionAt(offset) on a text of characters.
TextPositionAt(text, offset) ==
    LET o == Min(Max(offset, 0), Len(text))
        breaks == {i \in 1..o : text[i] = "\n"}
        lineStart == IF breaks = {} THEN 0 ELSE CHOOSE i \in breaks : \A j \in breaks : j <= i
    IN  Pos(Cardinality(breaks), o - lineStart)

FindPositionForNewHeaderGuard ==
    /\ hgPc = "start"
    /\ LET index == FirstNonWhitespaceOffset(MaskedText(hgText))
           endTrimmedTextLength == TrimEndLength(hgText)
       IN  hgResult' = IF index >= 0
                       THEN [value |-> TextPositionAt(hgText, index),
                             before |-> TRUE, after |-> FALSE]
                       ELSE [value |-> TextPositionAt(hgText, endTrimmedTextLength),
                             before |-> FALSE, after |-> endTrimmedTextLength # 0]
    /\ hgPc' = "done"
    /\ UNCHANGED hgText

\* The other operations are not running.
OnlyHeaderGuardPosition == UNCHANGED <<fdVars, incVars, guardVars, moreVars>>

NextHeaderGuardPosition == FindPositionForNewHeaderGuard /\ OnlyHeaderGuardPosition

InitHeaderGuardPosition ==
    /\ hgText \in SeqsUpTo(TextChars, MaxTextLength)
    /\ hgPc = "start" /\ hgResult = None
    /\ FunctionDefinitionIdle
    /\ IncludeIdle
    /\ HasHeaderGuardIdle
    /\ MoreIdle

SpecHeaderGuardPosition == InitHeaderGuardPosition /\ [][NextHeaderGuardPosition]_vars

(***************************************************************************)
(* hasHeaderGuard.  The text is a sequence of tokens: `#pragma` and `once` *)
(* are one token each, every other token is one character.  A symbol is    *)
(* its kind and its name.                                                  *)
(***************************************************************************)
PragmaTokens == {"#pragma", "once", " ", "x"}

\* cfg.headerGuardDefine(util.fileName(this.uri.path))
HeaderGuardDefine == "FILE_H"

GuardSymbolChoices ==
    [kind : {"Constant", "Function"}, name : {HeaderGuardDefine, "x"}]

\* The number of whitespace tokens from index i on.
RECURSIVE WhitespaceRun(_, _)
WhitespaceRun(tokens, i) ==
    IF i <= Len(tokens) /\ IsWhitespaceChar(tokens[i])
    THEN 1 + WhitespaceRun(tokens, i + 1) ELSE 0

\* A character of a word starts the token.
StartsWithWordChar(token) == token \in {"once", "x"}

\* /^\s*#pragma\s+once\b/
MatchesPragmaOnce(tokens) ==
    LET p == WhitespaceRun(tokens, 1) + 1
        gap == WhitespaceRun(tokens, p + 1)
        o == p + 1 + gap
    IN  /\ o <= Len(tokens)
        /\ tokens[p] = "#pragma"
        /\ gap >= 1
        /\ tokens[o] = "once"
        /\ o + 1 <= Len(tokens) => ~StartsWithWordChar(tokens[o + 1])

IsHeaderGuardSymbol(symbol) ==
    symbol.kind = "Constant" /\ symbol.name = HeaderGuardDefine

\* The stand-in for DefinesHeaderGuard that looks at the first symbol alone.
DefinesHeaderGuardFirst(symbols) ==
    symbols # <<>> /\ IsHeaderGuardSymbol(symbols[1])

\* for (const symbol of this.symbols) { if (...) return true; }
DefinesHeaderGuard(symbols) ==
    \E i \in 1..Len(symbols) : IsHeaderGuardSymbol(symbols[i])

HasHeaderGuardBegin ==
    /\ guardPc = "start"
    /\ IF MatchesPragmaOnce(guardTokens)
       THEN guardPc' = "done" /\ guardResult' = TRUE
       ELSE /\ guardPc' = IF guardSymbols = None THEN "load" ELSE "scan"
            /\ UNCHANGED guardResult
    /\ UNCHANGED <<guardTokens, guardSymbols, guardProvided>>

\* this.symbols = await this.executeSourceSymbolProvider()
LoadSymbols ==
    /\ guardPc = "load"
    /\ guardSymbols' = [list |-> guardProvided]
    /\ guardPc' = "scan"
    /\ UNCHANGED <<guardTokens, guardProvided, guardResult>>

ScanSymbols ==
    /\ guardPc = "scan"
    /\ guardResult' = DefinesHeaderGuard(guardSymbols.list)
    /\ guardPc' = "done"
    /\ UNCHANGED <<guardTokens, guardSymbols, guardProvided>>

\* The other operations are not running.
OnlyHasHeaderGuard == UNCHANGED <<fdVars, incVars, hgVars, moreVars>>

NextHasHeaderGuard ==
    \/ HasHeaderGuardBegin /\ OnlyHasHeaderGuard
    \/ LoadSymbols /\ OnlyHasHeaderGuard
    \/ ScanSymbols /\ OnlyHasHeaderGuard

\* this.symbols, when the constructor was given them, are those of the document.
InitHasHeaderGuard ==
    /\ guardTokens \in SeqsUpTo(PragmaTokens, MaxPragmaTokens)
    /\ guardProvided \in SeqsUpTo(GuardSymbolChoices, MaxGuardSymbols)
    /\ guardSymbols \in {None, [list |-> guardProvided]}
    /\ guardPc = "start" /\ guardResult = None
    /\ FunctionDefinitionIdle
    /\ IncludeIdle
    /\ HeaderGuardPositionIdle
    /\ MoreIdle

SpecHasHeaderGuard == InitHasHeaderGuard /\ [][NextHasHeaderGuard]_vars

(***************************************************************************)
(* The SourceSymbol constructor.  A name, a detail and a signature are     *)
(* sequences of characters.  A DocumentSymbol of the provider is           *)
(* [name, detail, kind, range, children]; a SourceSymbol is                 *)
(* [name, kind, signature, range, parent, children], where parent is None  *)
(* or the [name, kind] of the parent.                                      *)
(***************************************************************************)
\* s.includes(sub)
Includes(s, sub) ==
    \E i \in 0..(Len(s) - Len(sub)) : SubSeq(s, i + 1, i + Len(sub)) = sub

\* The index of the last occurrence of `::` in a name, 0 when there is none.
LastScopeOperator(name) ==
    LET found == {i \in 1..(Len(name) - 1) : name[i] = ":" /\ name[i + 1] = ":"}
    IN  IF found = {} THEN 0 ELSE CHOOSE i \in found : \A j \in found : j <= i

\* parse.getNormalizedSymbolName: the name without the decorations of a provider,
\* here a scope qualifier before it and a parameter list after it.
GetNormalizedSymbolName(name) ==
    LET paren == IndexOf(name, "(")
        bare == IF paren >= 0 THEN SubSeq(name, 1, paren) ELSE name
        scope == LastScopeOperator(bare)
    IN  IF scope = 0 THEN bare ELSE SubSeq(bare, scope + 2, Len(bare))

IsClassOrStruct(kind) == kind \in {"Class", "Struct"}

\* util.sortByRange as the order of Array.sort: a is not after b.
RangeNotAfter(a, b) ==
    /\ PosLeq(a.range.start, b.range.start)
    /\ a.range.start = b.range.start => PosLeq(a.range.end, b.range.end)

RECURSIVE InsertByRange(_, _)
InsertByRange(sorted, symbol) ==
    IF sorted = <<>> THEN <<symbol>>
    ELSE IF RangeNotAfter(symbol, Head(sorted)) THEN <<symbol>> \o sorted
    ELSE <<Head(sorted)>> \o InsertByRange(Tail(sorted), symbol)

RECURSIVE SortByRange(_)
\* symbols.sort(util.sortByRange)
SortByRange(symbols) ==
    IF symbols = <<>> THEN <<>>
    ELSE InsertByRange(SortByRange(SubSeq(symbols, 1, Len(symbols) - 1)),
                       symbols[Len(symbols)])

\* A stand-in for SortedChildren that keeps the order of the provider.
ReportedChildren(symbol) == symbol.children

\* symbol.children.sort(util.sortByRange)
SortedChildren(symbol) == SortByRange(symbol.children)

RECURSIVE NewSourceSymbol(_, _)
\* new SourceSymbol(symbol, uri, parent), for a symbol that is not a SourceSymbol.
NewSourceSymbol(symbol, parent) ==
    LET inDetail == Includes(symbol.detail, symbol.name \o <<"(">>)
        name == GetNormalizedSymbolName(symbol.name)
        kind == IF inDetail /\ symbol.kind = "Property" THEN "Method" ELSE symbol.kind
        signature == IF inDetail THEN symbol.detail
                     ELSE IF parent # None /\ IsClassOrStruct(parent.kind)
                          THEN parent.name \o <<":", ":">> \o symbol.name
                          ELSE symbol.name
        this == [name |-> name, kind |-> kind]
        children == SortedChildren(symbol)
    IN  [name |-> name, kind |-> kind, signature |-> signature, range |-> symbol.range,
         parent |-> parent,
         children |-> [i \in 1..Len(children) |-> NewSourceSymbol(children[i], this)]]

\* The sequences of distinct elements of a set, none longer than n.
Arrangements(S, n) ==
    {s \in SeqsUpTo(S, n) : \A i, j \in 1..Len(s) : i # j => s[i] # s[j]}

\* The members of a struct: each on a line of its own inside the struct that
\* starts on the given line.
MemberSlots == {1, 2}

RawMember(line, g) ==
    [name |-> <<"b">>, detail |-> <<>>, kind |-> "Field",
     range |-> Rng(Pos(line + g - 1, 1), Pos(line + g - 1, 2)), children |-> <<>>]

\* The orders the provider can report the members of a struct in.
MemberOrders == Arrangements(MemberSlots, Cardinality(MemberSlots))

\* A nested struct of the top-level symbol: struct k spans three lines, the
\* structs do not overlap.
RawStruct(k, members) ==
    [name |-> IF k % 2 = 1 THEN <<"A">> ELSE <<"A", "b">>, detail |-> <<>>,
     kind |-> "Struct",
     range |-> Rng(Pos(4 * k - 3, 0), Pos(4 * k - 1, 1)),
     children |-> [i \in 1..Len(members) |-> RawMember(4 * k - 3, members[i])]]

\* Struct k, its members reported in any order.
RawStructs(k) == {RawStruct(k, members) : members \in MemberOrders}

\* The output of the provider for one top-level symbol: its children are inside
\* its range and are reported in any order, and so are the members of each
\* struct.
RawSymbols ==
    {[name |-> <<"A">>, detail |-> <<>>, kind |-> kind,
      range |-> Rng(Pos(0, 0), Pos(4 * MaxChildren, 1)),
      children |-> [i \in 1..Len(slots) |-> RawStruct(slots[i], orders[slots[i]])]] :
        kind \in {"Class", "Namespace"},
        slots \in Arrangements(1..MaxChildren, MaxChildren),
        orders \in [1..MaxChildren -> MemberOrders]}

BuildSourceSymbol ==
    /\ treePc = "start"
    /\ sourceSymbol' = NewSourceSymbol(rawSymbol, None)
    /\ treePc' = "done"
    /\ UNCHANGED rawSymbol

NextSymbolTree == BuildSourceSymbol /\ OnlySymbolTree

InitSymbolTree ==
    /\ rawSymbol \in RawSymbols
    /\ treePc = "start" /\ sourceSymbol = None
    /\ IdleButSymbolTree

SpecSymbolTree == InitSymbolTree /\ [][NextSymbolTree]_vars

(***************************************************************************)
(* CSymbol.getTrueStart.  The text before the symbol is a sequence of      *)
(* tokens: `template` is one token of eight characters, every other token  *)
(* is one character.  The text holds no comment and no quoted literal,     *)
(* which util.maskComments and util.maskQuotes would blank.                *)
(***************************************************************************)
TemplateTokens == {"template", "<", "T", ">", " ", "\n", ";"}

\* What masking leaves of the token `template`.
MaskedTemplate == "        "

TemplateTokenLength(t) == IF t \in {"template", MaskedTemplate} THEN Len("template") ELSE Len("T")

\* The offset of token i: the length of the tokens before it.
RECURSIVE TemplateTokenOffset(_, _)
TemplateTokenOffset(tokens, i) ==
    IF i <= 1 THEN 0
    ELSE TemplateTokenOffset(tokens, i - 1) + TemplateTokenLength(tokens[i - 1])

\* document.positionAt for an offset that is the start of token i, or the end of
\* the text when i is Len(tokens) + 1.
TemplateTokenPosition(tokens, i) ==
    LET breaks == {j \in 1..(i - 1) : tokens[j] = "\n"}
        lineStart == IF breaks = {} THEN 1
                     ELSE (CHOOSE j \in breaks : \A k \in breaks : k <= j) + 1
    IN  Pos(Cardinality(breaks),
            TemplateTokenOffset(tokens, i) - TemplateTokenOffset(tokens, lineStart))

\* The index of the `>` that closes the `<` at index open, 0 when none does:
\* depth counts the brackets open at index i.
RECURSIVE ClosingAngleBracket(_, _, _)
ClosingAngleBracket(tokens, i, depth) ==
    IF i > Len(tokens) THEN 0
    ELSE IF tokens[i] = "<" THEN ClosingAngleBracket(tokens, i + 1, depth + 1)
    ELSE IF tokens[i] = ">"
         THEN (IF depth = 1 THEN i ELSE ClosingAngleBracket(tokens, i + 1, depth - 1))
         ELSE ClosingAngleBracket(tokens, i + 1, depth)

\* util.maskAngleBrackets(text, true) from index i on: what is between a `<` and the
\* `>` that closes it becomes spaces, the two brackets stay.
RECURSIVE MaskAngleBrackets(_, _)
MaskAngleBrackets(tokens, i) ==
    IF i > Len(tokens) THEN tokens
    ELSE LET close == IF tokens[i] = "<" THEN ClosingAngleBracket(tokens, i + 1, 1) ELSE 0
         IN  IF close = 0 THEN MaskAngleBrackets(tokens, i + 1)
             ELSE MaskAngleBrackets(
                      [j \in 1..Len(tokens) |->
                          IF i < j /\ j < close
                          THEN (IF tokens[j] = "template" THEN MaskedTemplate ELSE " ")
                          ELSE tokens[j]],
                      close + 1)

IsTemplateSpace(t) == t \in {" ", "\n", MaskedTemplate}

\* trimEnd(): the number of tokens left.
TemplateTrimEnd(tokens) ==
    LET found == {i \in 1..Len(tokens) : ~IsTemplateSpace(tokens[i])}
    IN  IF found = {} THEN 0 ELSE CHOOSE i \in found : \A j \in found : j <= i

IsWordToken(t) == t \in {"template", "T"}

\* The first index from i on that holds no whitespace.
RECURSIVE SkipTemplateSpace(_, _, _)
SkipTemplateSpace(tokens, n, i) ==
    IF i <= n /\ IsTemplateSpace(tokens[i]) THEN SkipTemplateSpace(tokens, n, i + 1) ELSE i

\* /\btemplate\s*<.+>/ tried at index i of the first n tokens: the index of the last
\* token of the match, 0 when there is none.  `.+` is greedy and stays on the line.
TemplateMatchEnd(tokens, n, i) ==
    IF ~(tokens[i] = "template" /\ (i > 1 => ~IsWordToken(tokens[i - 1]))) THEN 0
    ELSE LET open == SkipTemplateSpace(tokens, n, i + 1)
             ends == {c \in (open + 2)..n :
                          /\ tokens[c] = ">"
                          /\ \A j \in (open + 1)..(c - 1) : tokens[j] # "\n"}
         IN  IF open > n \/ tokens[open] # "<" \/ ends = {} THEN 0
             ELSE CHOOSE c \in ends : \A d \in ends : d <= c

\* for (const match of maskedText.matchAll(...)) lastMatch = match: the index of the
\* first token of the last match found from index i on, given the last one before.
RECURSIVE LastTemplateMatch(_, _, _, _)
LastTemplateMatch(tokens, n, i, last) ==
    IF i > n THEN last
    ELSE LET e == TemplateMatchEnd(tokens, n, i)
         IN  IF e = 0 THEN LastTemplateMatch(tokens, n, i + 1, last)
             ELSE LastTemplateMatch(tokens, n, e + 1, i)

\* The position getTrueStart computes, None when it returns range.start and leaves
\* this.trueStart as it is.
ComputeTrueStart(tokens) ==
    LET maskedText == MaskAngleBrackets(tokens, 1)
        n == TemplateTrimEnd(maskedText)
        lastMatch == LastTemplateMatch(maskedText, n, 1, 0)
    IN  IF n = 0 \/ maskedText[n] # ">" THEN None
        ELSE IF lastMatch = 0 \/ TemplateTokenOffset(maskedText, lastMatch) = 0 THEN None
        ELSE TemplateTokenPosition(tokens, lastMatch)

\* range.start of the symbol: the end of the text before it.
RangeStart == TemplateTokenPosition(textBefore, Len(textBefore) + 1)

GetTrueStart ==
    /\ trueStartPc \in {"start", "called"}
    /\ IF trueStart # None
       THEN trueStartResult' = trueStart /\ UNCHANGED trueStart
       ELSE LET computed == ComputeTrueStart(textBefore)
            IN  IF computed = None
                THEN trueStartResult' = RangeStart /\ UNCHANGED trueStart
                ELSE trueStart' = computed /\ trueStartResult' = computed
    /\ trueStartPc' = IF trueStartPc = "start" THEN "called" ELSE "done"
    /\ UNCHANGED textBefore

NextTrueStart == GetTrueStart /\ OnlyTrueStart

InitTrueStart ==
    /\ textBefore \in SeqsUpTo(TemplateTokens, MaxTokensBefore)
    /\ trueStartPc = "start" /\ trueStart = None /\ trueStartResult = None
    /\ IdleButTrueStart

SpecTrueStart == InitTrueStart /\ [][NextTrueStart]_vars

(***************************************************************************)
(* SourceSymbol.isConstructor, asked of a symbol the constructor built.    *)
(***************************************************************************)
IsWordChar(c) == c \in {"A", "b"}

\* The length of the identifier the text starts with: /[\w_][\w\d_]*/
RECURSIVE IdentifierLength(_)
IdentifierLength(s) ==
    IF s # <<>> /\ IsWordChar(Head(s)) THEN 1 + IdentifierLength(Tail(s)) ELSE 0

\* /^(?<name>[\w_][\w\d_]*)::\k<name>/.test(signature)
MatchesScopedSelfName(signature) ==
    LET n == IdentifierLength(signature)
    IN  /\ n >= 1
        /\ Len(signature) >= 2 * n + 2
        /\ SubSeq(signature, n + 1, n + 2) = <<":", ":">>
        /\ SubSeq(signature, n + 3, 2 * n + 2) = SubSeq(signature, 1, n)

\* SourceSymbol.isConstructor
IsConstructor(symbol) ==
    IF symbol.kind \in {"Constructor", "Method", "Function"}
    THEN \/ symbol.parent # None /\ symbol.name = symbol.parent.name
         \/ MatchesScopedSelfName(symbol.signature)
    ELSE FALSE

Identifiers == {<<"A">>, <<"A", "b">>}

\* A name, with or without a scope before it.
ScopedNames == Identifiers \cup {s \o <<":", ":">> \o n : s \in Identifiers, n \in Identifiers}

\* The name field of a provider: with or without a parameter list.
ReportedNames == ScopedNames \cup {n \o <<"(", ")">> : n \in ScopedNames}

\* The detail field of a provider: empty, or a signature.
ReportedDetails == {<<>>} \cup {n \o <<"(", ")">> : n \in ScopedNames}

ReportedRange == Rng(Pos(1, 0), Pos(1, 1))

\* A symbol of the provider, alone or as the one child of a class, a struct or a
\* namespace.
ReportedSymbols ==
    LET symbols == [name : ReportedNames, detail : ReportedDetails,
                    kind : {"Function", "Method", "Constructor", "Operator", "Property",
                            "Variable"},
                    range : {ReportedRange}, children : {<<>>}]
        parents == [name : Identifiers, detail : {<<>>}, kind : {"Class", "Struct", "Namespace"},
                    range : {Rng(Pos(0, 0), Pos(2, 0))}, children : {<<>>}]
    IN  [symbol : symbols, parent : {None}] \cup [symbol : symbols, parent : parents]

\* The SourceSymbol of the reported symbol, built with its parent when it has one.
BuildAskedSymbol ==
    /\ isConstructorPc = "start"
    /\ askedSymbol' =
          IF reported.parent = None THEN NewSourceSymbol(reported.symbol, None)
          ELSE NewSourceSymbol([reported.parent EXCEPT !.children = <<reported.symbol>>],
                               None).children[1]
    /\ isConstructorPc' = "built"
    /\ UNCHANGED <<reported, isConstructorResult>>

AskIsConstructor ==
    /\ isConstructorPc = "built"
    /\ isConstructorResult' = IsConstructor(askedSymbol)
    /\ isConstructorPc' = "done"
    /\ UNCHANGED <<reported, askedSymbol>>

NextIsConstructor ==
    \/ BuildAskedSymbol /\ OnlyIsConstructor
    \/ AskIsConstructor /\ OnlyIsConstructor

InitIsConstructor ==
    /\ reported \in ReportedSymbols
    /\ isConstructorPc = "start" /\ askedSymbol = None /\ isConstructorResult = None
    /\ IdleButIsConstructor

SpecIsConstructor == InitIsConstructor /\ [][NextIsConstructor]_vars

(***************************************************************************)
(* CSymbol.isPrimitive, CSymbol.isPointer and Setter.create.  The text of  *)
(* a symbol is a sequence of tokens, each a keyword, a name, a punctuator  *)
(* or one space; an offset counts characters from the start of the symbol. *)
(* A symbol is [kind, member, text, nameIndex]: member says that its       *)
(* parent is a class or a struct, nameIndex is the index of the token of   *)
(* its name (selectionRange).  The texts hold no comment.                  *)
(***************************************************************************)
\* The offset of token i: the length of the tokens before it.
RECURSIVE WordOffset(_, _)
WordOffset(tokens, i) ==
    IF i <= 1 THEN 0 ELSE WordOffset(tokens, i - 1) + Len(tokens[i - 1])

\* The index of the token that holds the character at an offset, 0 when none does.
WordAt(tokens, offset) ==
    LET found == {i \in 1..Len(tokens) :
                      WordOffset(tokens, i) <= offset /\ offset < WordOffset(tokens, i + 1)}
    IN  IF found = {} THEN 0 ELSE CHOOSE i \in found : TRUE

\* re_primitiveTypes, of which the model has `int`.
PrimitiveTypes == {"int"}

Punctuators == {" ", "*", "<", ">", "::", "=", ";", "&"}

\* A token of word characters: a keyword or a name.
IsWord(token) == token \notin Punctuators

\* CSymbol.leadingText: the text before selectionRange.
LeadingText(symbol) == SubSeq(symbol.text, 1, symbol.nameIndex - 1)

\* SourceSymbol.isVariable
IsVariable(symbol) ==
    symbol.kind = "Variable" \/ (symbol.member /\ symbol.kind \in {"Field", "Property"})

\* SourceSymbol.mightBeTypedefOrTypeAlias
MightBeTypedefOrTypeAlias(symbol) == symbol.kind \in {"Interface", "Class", "Property"}

\* CSymbol.isTypedef
IsTypedef(symbol) ==
    MightBeTypedefOrTypeAlias(symbol) /\ \E i \in 1..Len(symbol.text) : symbol.text[i] = "typedef"

\* CSymbol.isTypeAlias
IsTypeAlias(symbol) ==
    /\ MightBeTypedefOrTypeAlias(symbol)
    /\ \E i \in 1..Len(symbol.text) : symbol.text[i] = "using"
    /\ \E i \in 1..Len(symbol.text) : symbol.text[i] = "="

\* CSymbol.matchesPrimitiveType
MatchesPrimitiveType(tokens) ==
    /\ \E i \in 1..Len(tokens) : tokens[i] \in PrimitiveTypes
    /\ \A i \in 1..Len(tokens) : tokens[i] \notin {"<", ">"}

\* /\b(struct|class|(<(>(?=>)|[^>])*>))\b/: a keyword, or a bracket group with a
\* word character right before it and right after it.
MatchesStructClassOrTemplate(tokens) ==
    \/ \E i \in 1..Len(tokens) : tokens[i] \in {"struct", "class"}
    \/ \E i \in 2..Len(tokens) : \E j \in (i + 1)..(Len(tokens) - 1) :
          /\ tokens[i] = "<" /\ IsWord(tokens[i - 1])
          /\ tokens[j] = ">" /\ IsWord(tokens[j + 1])
          /\ \A k \in (i + 1)..(j - 1) : tokens[k] = ">" => tokens[k + 1] = ">"

\* The token at index i is followed, after whitespace or masked words, by `::`.
RECURSIVE FollowedByScopeOperator(_, _, _)
FollowedByScopeOperator(tokens, masked, i) ==
    IF i + 1 > Len(tokens) THEN FALSE
    ELSE IF tokens[i + 1] = "::" THEN TRUE
    ELSE IF tokens[i + 1] = " " \/ tokens[i + 1] \in masked
         THEN FollowedByScopeOperator(tokens, masked, i + 1)
         ELSE FALSE

\* match(re_scopeResolvedIdentifier) on the tokens from index from on, the words of
\* `masked` replaced by spaces: the index of the first word that no `::` follows,
\* 0 when there is no match.
FirstScopeResolvedIdentifier(tokens, masked, from) ==
    LET found == {i \in from..Len(tokens) :
                      /\ IsWord(tokens[i]) /\ tokens[i] \notin masked
                      /\ ~FollowedByScopeOperator(tokens, masked, i)}
    IN  IF found = {} THEN 0 ELSE CHOOSE i \in found : \A j \in found : i <= j

Returns(value) == [returns |-> value]

Resolves(offset) == [resolves |-> offset]

\* CSymbol.isPrimitive up to its return or its call of resolveThisType: the value
\* returned, or the offset (startOffset taken as 0) handed to resolveThisType.
IsPrimitiveCall(symbol, resolve) ==
    IF IsVariable(symbol)
    THEN LET leadingText == LeadingText(symbol)
             match == FirstScopeResolvedIdentifier(
                          leadingText, {"static", "const", "constexpr", "inline", "mutable"}, 1)
         IN  IF MatchesPrimitiveType(leadingText) THEN Returns(TRUE)
             ELSE IF ~resolve THEN Returns(FALSE)
             ELSE IF match # 0 THEN Resolves(WordOffset(leadingText, match))
             ELSE Returns(FALSE)
    ELSE IF IsTypedef(symbol)
    THEN LET match == FirstScopeResolvedIdentifier(symbol.text, {"typedef", "const"}, 1)
         IN  IF MatchesPrimitiveType(symbol.text) THEN Returns(TRUE)
             ELSE IF MatchesStructClassOrTemplate(symbol.text) THEN Returns(FALSE)
             ELSE IF ~resolve THEN Returns(FALSE)
             ELSE IF match # 0 THEN Resolves(WordOffset(symbol.text, match))
             ELSE Returns(FALSE)
    ELSE IF IsTypeAlias(symbol)
    THEN LET indexOfEquals == CHOOSE i \in 1..Len(symbol.text) :
                                  /\ symbol.text[i] = "="
                                  /\ \A j \in 1..(i - 1) : symbol.text[j] # "="
             match == FirstScopeResolvedIdentifier(symbol.text, {}, indexOfEquals + 1)
         IN  IF MatchesPrimitiveType(symbol.text) THEN Returns(TRUE)
             ELSE IF MatchesStructClassOrTemplate(symbol.text) THEN Returns(FALSE)
             ELSE IF ~resolve THEN Returns(FALSE)
             ELSE IF match # 0
                  THEN \* match.index counts from the character after `=`
                       Resolves(WordOffset(symbol.text, match)
                                    - WordOffset(symbol.text, indexOfEquals + 1))
                  ELSE Returns(FALSE)
    ELSE Returns(FALSE)

\* The declarations that do not change: an enum E, a struct S, a class Vec and a
\* namespace std.
EnumSymbol ==
    [kind |-> "Enum", member |-> FALSE, text |-> <<"enum", " ", "E", ";">>, nameIndex |-> 3]

StructSymbol ==
    [kind |-> "Struct", member |-> FALSE, text |-> <<"struct", " ", "S", ";">>, nameIndex |-> 3]

ClassSymbol ==
    [kind |-> "Class", member |-> FALSE, text |-> <<"class", " ", "Vec", ";">>, nameIndex |-> 3]

NamespaceSymbol ==
    [kind |-> "Namespace", member |-> FALSE, text |-> <<"namespace", " ", "std">>,
     nameIndex |-> 3]

\* The names a typedef or an alias is declared for.
TypeNames == {"Foo", "Bar"}

\* What a typedef or an alias names: a type, with or without a scope before it.
TypeReferences ==
    LET types == {"int", "E", "S"} \cup TypeNames
    IN  {<<t>> : t \in types} \cup {<<"std", "::", t>> : t \in types}

\* typedef <type> <name>;
TypedefSymbol(type, name) ==
    [kind |-> "Interface", member |-> FALSE,
     text |-> <<"typedef", " ">> \o type \o <<" ", name, ";">>,
     nameIndex |-> Len(type) + 4]

\* using <name> = <type>;
TypeAliasSymbol(type, name) ==
    [kind |-> "Interface", member |-> FALSE,
     text |-> <<"using", " ", name, " ", "=", " ">> \o type \o <<";">>,
     nameIndex |-> 3]

\* The declarations a type name can have.
TypeDeclarations(name) ==
    {TypedefSymbol(type, name) : type \in TypeReferences \cup {<<"struct", " ", "S">>}}
        \cup {TypeAliasSymbol(type, name) : type \in TypeReferences}

\* sourceDoc.findDefintions(position) and typeFile.getSymbol(locations[0].range.start):
\* the declaration of the name at the offset, None when the navigation finds none.
FindTypeSymbol(symbol, offset) ==
    LET i == WordAt(symbol.text, offset)
        name == IF i = 0 THEN " " ELSE symbol.text[i]
    IN  IF name \in TypeNames THEN declared[name]
        ELSE CASE name = "E" -> EnumSymbol
               [] name = "S" -> StructSymbol
               [] name = "Vec" -> ClassSymbol
               [] name = "std" -> NamespaceSymbol
               [] OTHER -> None

\* CSymbol.isPointer
IsPointer(symbol) ==
    LET maskedText == MaskAngleBrackets(LeadingText(symbol), 1)
    IN  \E i \in 1..Len(maskedText) : maskedText[i] = "*"

\* replace(/\b(static|mutable)\b\s*/g, '')
RECURSIVE WithoutStaticMutable(_, _)
WithoutStaticMutable(tokens, skipping) ==
    IF tokens = <<>> THEN <<>>
    ELSE IF Head(tokens) \in {"static", "mutable"} THEN WithoutStaticMutable(Tail(tokens), TRUE)
    ELSE IF skipping /\ Head(tokens) = " " THEN WithoutStaticMutable(Tail(tokens), TRUE)
    ELSE <<Head(tokens)>> \o WithoutStaticMutable(Tail(tokens), FALSE)

\* A stand-in for SetterParameter that passes by value always.
SetterParameterByValue(symbol, isPrimitive) ==
    WithoutStaticMutable(LeadingText(symbol), FALSE) \o <<"value">>

\* setter.parameter in Setter.create
SetterParameter(symbol, isPrimitive) ==
    LET type == WithoutStaticMutable(LeadingText(symbol), FALSE)
    IN  (IF ~isPrimitive /\ ~IsPointer(symbol)
         THEN <<"const", " ">> \o type \o <<"&">>
         ELSE type) \o <<"value">>

\* An isPrimitive call runs to its return or to its call of resolveThisType.
CallIsPrimitive ==
    /\ isPrimitivePc = "call"
    /\ LET outcome == IsPrimitiveCall(current, resolveTypes)
       IN  IF "returns" \in DOMAIN outcome
           THEN /\ isPrimitiveResult' = outcome
                /\ isPrimitivePc' = IF forSetter THEN "create" ELSE "done"
                /\ UNCHANGED resolveOffset
           ELSE /\ resolveOffset' = outcome.resolves
                /\ isPrimitivePc' = "resolve"
                /\ UNCHANGED isPrimitiveResult
    /\ UNCHANGED <<declared, resolveTypes, asked, forSetter, current, lookups, lastTarget,
                   parameter>>

\* A stand-in for TargetOutcome that takes an enum for any other kind.
TargetOutcomeEnumAsOther(typeSymbol) ==
    IF typeSymbol # None /\ MightBeTypedefOrTypeAlias(typeSymbol)
    THEN [recurses |-> typeSymbol]
    ELSE Returns(FALSE)

\* What resolveThisType does with the symbol at the first location: it returns, or
\* it calls isPrimitive on it.
TargetOutcome(typeSymbol) ==
    IF typeSymbol # None /\ typeSymbol.kind = "Enum" THEN Returns(TRUE)
    ELSE IF typeSymbol # None /\ MightBeTypedefOrTypeAlias(typeSymbol)
         THEN [recurses |-> typeSymbol]
         ELSE Returns(FALSE)

\* resolveThisType: the lookup, and the isPrimitive call on the symbol found when it
\* might be a typedef or a type alias.
ResolveThisType ==
    /\ isPrimitivePc = "resolve"
    /\ LET typeSymbol == FindTypeSymbol(current, resolveOffset)
           outcome == TargetOutcome(typeSymbol)
       IN  /\ lastTarget' = typeSymbol
           /\ lookups' = Min(lookups + 1, MaxLookups)
           /\ IF "returns" \in DOMAIN outcome
              THEN /\ isPrimitiveResult' = outcome
                   /\ isPrimitivePc' = IF forSetter THEN "create" ELSE "done"
                   /\ UNCHANGED current
              ELSE /\ current' = outcome.recurses
                   /\ isPrimitivePc' = "call"
                   /\ UNCHANGED isPrimitiveResult
    /\ UNCHANGED <<declared, resolveTypes, asked, forSetter, resolveOffset, parameter>>

\* Setter.create after isPrimitive has returned.
CreateSetter ==
    /\ isPrimitivePc = "create"
    /\ parameter' = [text |-> SetterParameter(asked, isPrimitiveResult.returns)]
    /\ isPrimitivePc' = "done"
    /\ UNCHANGED <<declared, resolveTypes, asked, forSetter, current, resolveOffset, lookups,
                   lastTarget, isPrimitiveResult>>

NextIsPrimitive ==
    \/ CallIsPrimitive /\ OnlyIsPrimitive
    \/ ResolveThisType /\ OnlyIsPrimitive
    \/ CreateSetter /\ OnlyIsPrimitive

\* The types of a member variable.
MemberTypes ==
    {<<"int">>, <<"Foo">>, <<"E">>, <<"S">>, <<"std", "::", "Foo">>,
     <<"Vec", "<", "int", ">">>, <<"Vec", "<", "S", "*", ">">>}

\* <specifier> <type> [*]x;
MemberVariables ==
    {[kind |-> "Field", member |-> TRUE,
      text |-> specifier \o type \o pointer \o <<"x", ";">>,
      nameIndex |-> Len(specifier) + Len(type) + Len(pointer) + 1] :
        specifier \in {<<>>, <<"static", " ">>, <<"mutable", " ">>, <<"const", " ">>},
        type \in MemberTypes,
        pointer \in {<<" ">>, <<" ", "*">>}}

\* isPrimitive is called by Setter.create on a member variable, or on the typedef or
\* the alias declared for Foo.
InitIsPrimitive ==
    /\ declared \in [TypeNames -> {None}] \cup
                    {[name \in TypeNames |-> IF name = "Foo" THEN foo ELSE bar] :
                         foo \in TypeDeclarations("Foo") \cup {None},
                         bar \in TypeDeclarations("Bar") \cup {None}}
    /\ resolveTypes \in BOOLEAN
    /\ \/ forSetter = TRUE /\ asked \in MemberVariables
       \/ forSetter = FALSE /\ declared["Foo"] # None /\ asked = declared["Foo"]
    /\ current = asked
    /\ isPrimitivePc = "call" /\ resolveOffset = 0 /\ lookups = 0 /\ lastTarget = None
    /\ isPrimitiveResult = None /\ parameter = None
    /\ IdleButIsPrimitive

SpecIsPrimitive == InitIsPrimitive /\ [][NextIsPrimitive]_vars

\* isPrimitive is called on a member variable of type Foo, or on the typedef or the
\* alias declared for Foo, with resolveTypes enabled.
InitResolveTypes ==
    /\ InitIsPrimitive
    /\ resolveTypes
    /\ forSetter => asked.text \in {<<"Foo", " ", "x", ";">>, <<"std", "::", "Foo", " ", "x", ";">>}

\* The calls are awaited promises: each one that can continue does.
SpecIsPrimitiveFair == InitResolveTypes /\ [][NextIsPrimitive]_vars /\ WF_vars(NextIsPrimitive)

(***************************************************************************)
(* updateSignature.  A function symbol is [kind, detail, name, text]; its  *)
(* text is the return type, the name, the parameter list, and a `;`, a     *)
(* body or nothing.                                                        *)
(***************************************************************************)
\* SourceSymbol.isFunction
IsFunction(symbol) == symbol.kind \in {"Operator", "Method", "Constructor", "Function"}

\* parsableText.endsWith('}')
EndsWithBrace(symbol) == symbol.text # <<>> /\ symbol.text[Len(symbol.text)] = "}"

\* CSymbol.isFunctionDeclaration
IsFunctionDeclaration(symbol) ==
    IsFunction(symbol) /\ (symbol.detail = "declaration" \/ ~EndsWithBrace(symbol))

\* CSymbol.isFunctionDefinition
IsFunctionDefinition(symbol) == IsFunction(symbol) /\ ~IsFunctionDeclaration(symbol)

\* FunctionSignature.returnType: the text before the name.
ReturnType(symbol) ==
    LET i == CHOOSE i \in 1..Len(symbol.text) : symbol.text[i] = symbol.name
    IN  SubSeq(symbol.text, 1, i - 1)

\* FunctionSignature.normalizedReturnType: the return type without its whitespace.
NormalizedReturnType(symbol) == SelectSeq(ReturnType(symbol), LAMBDA token : token # " ")

\* A stand-in for LinkedFunctionError that does not compare the names.
LinkedFunctionErrorAnyName(changed, linked) ==
    IF IsFunctionDeclaration(changed)
    THEN IF linked = None \/ ~IsFunctionDefinition(linked)
         THEN [message |-> "The linked definition could not be found."]
         ELSE None
    ELSE IF linked = None \/ ~IsFunctionDeclaration(linked)
         THEN [message |-> "The linked declaration could not be found."]
         ELSE None

\* The test of the linked function in updateSignature: the alert it raises, None
\* when it raises none.
LinkedFunctionError(changed, linked) ==
    IF IsFunctionDeclaration(changed)
    THEN IF linked = None \/ ~IsFunctionDefinition(linked) \/ linked.name # changed.name
         THEN [message |-> "The linked definition could not be found."]
         ELSE None
    ELSE IF linked = None \/ ~IsFunctionDeclaration(linked) \/ linked.name # changed.name
         THEN [message |-> "The linked declaration could not be found."]
         ELSE None

\* The WorkspaceEdit of updateSignature: the replacements it holds.
SignatureEdit(changed, linked) ==
    IF NormalizedReturnType(changed) # NormalizedReturnType(linked)
    THEN <<[target |-> "returnTypeRange", newText |-> ReturnType(changed)]>>
    ELSE <<>>

\* updateSignature up to the return of linkedDoc.getSymbol.
GetLinkedFunction ==
    /\ updateSignaturePc = "start"
    /\ linkedFunction' = symbolAtLinkedLocation
    /\ updateSignaturePc' = "linked"
    /\ UNCHANGED <<currentFunction, symbolAtLinkedLocation, alerts, appliedEdits,
                   updateSignatureResult>>

\* The rest of updateSignature: the alert and the return, or the edit and what
\* applyEdit answers.
CheckAndApply ==
    /\ updateSignaturePc = "linked"
    /\ LET error == LinkedFunctionError(currentFunction, linkedFunction)
       IN  IF error # None
           THEN /\ alerts' = Append(alerts, error.message)
                /\ updateSignatureResult' = [returns |-> None]
                /\ UNCHANGED appliedEdits
           ELSE /\ appliedEdits' =
                       Append(appliedEdits, [replaces |-> SignatureEdit(currentFunction, linkedFunction)])
                /\ \E applied \in BOOLEAN : updateSignatureResult' = [returns |-> applied]
                /\ UNCHANGED alerts
    /\ updateSignaturePc' = "done"
    /\ UNCHANGED <<currentFunction, symbolAtLinkedLocation, linkedFunction>>

NextUpdateSignature ==
    \/ GetLinkedFunction /\ OnlyUpdateSignature
    \/ CheckAndApply /\ OnlyUpdateSignature

FunctionNames == {"f", "g"}

\* <return type> <name>() followed by nothing, by `;` or by a body.
FunctionSymbols(kinds) ==
    {[kind |-> kind, detail |-> detail, name |-> name,
      text |-> returnType \o <<name, "(", ")">> \o rest] :
        kind \in kinds, detail \in {"", "declaration"}, name \in FunctionNames,
        returnType \in {<<"int", " ">>, <<"void", " ">>, <<"int", " ", " ">>},
        rest \in {<<>>, <<";">>, <<" ", "{", "}">>}}

\* updateSignature is called on a function, with a location where there is a
\* function, another symbol or none.
InitUpdateSignature ==
    /\ currentFunction \in FunctionSymbols({"Function", "Method"})
    /\ symbolAtLinkedLocation \in FunctionSymbols({"Function", "Method", "Variable"}) \cup {None}
    /\ linkedFunction = None
    /\ updateSignaturePc = "start"
    /\ alerts = <<>> /\ appliedEdits = <<>> /\ updateSignatureResult = None
    /\ IdleButUpdateSignature

SpecUpdateSignature == InitUpdateSignature /\ [][NextUpdateSignature]_vars

(***************************************************************************)
(* The lazy loading of SourceDocument.symbols by hasHeaderGuard,           *)
(* findPositionForFunctionDefinition and findPositionForNewInclude, called *)
(* on one SourceDocument.  Each operation tests this.symbols, and when it  *)
(* is undefined awaits executeSourceSymbolProvider and assigns the result; *)
(* other operations run while it awaits.  What an operation does after the *)
(* symbols are loaded is modelled above and left out here.                 *)
(***************************************************************************)
CachingOperations ==
    {"hasHeaderGuard", "findPositionForFunctionDefinition", "findPositionForNewInclude"}

\* What the provider can answer: lists of symbol names, the empty one included.
ProvidedSymbolLists == {[list |-> <<>>], [list |-> <<"f">>], [list |-> <<"f", "g">>]}

\* The operation returns before it reads this.symbols: hasHeaderGuard on a text
\* that starts with #pragma once, findPositionForNewInclude on a text with a block
\* of includes.
ReturnsBeforeSymbols(operation) ==
    \/ operation = "hasHeaderGuard" /\ cacheDocument.pragmaOnce
    \/ operation = "findPositionForNewInclude" /\ cacheDocument.includes

\* !this.symbols: undefined is falsy, an array is truthy even when empty.
SymbolsUndefined(symbols) == symbols = None

\* An operation is called and runs up to its first await: it returns, or it calls the
\* provider and awaits it.
BeginOperation(operation) ==
    /\ operationPc[operation] = "start"
    /\ IF ~ReturnsBeforeSymbols(operation) /\ SymbolsUndefined(cachedSymbols)
       THEN /\ providerCalls' = providerCalls + 1
            /\ operationPc' = [operationPc EXCEPT ![operation] = "awaiting"]
       ELSE /\ operationPc' = [operationPc EXCEPT ![operation] = "done"]
            /\ UNCHANGED providerCalls
    /\ UNCHANGED <<cacheDocument, cachedSymbols, replacements>>

\* The provider answers: the operation assigns this.symbols and runs to its end.
ResumeOperation(operation) ==
    /\ operationPc[operation] = "awaiting"
    /\ \E provided \in ProvidedSymbolLists : cachedSymbols' = provided
    /\ replacements' = IF cachedSymbols # None THEN replacements + 1 ELSE replacements
    /\ operationPc' = [operationPc EXCEPT ![operation] = "done"]
    /\ UNCHANGED <<cacheDocument, providerCalls>>

NextSymbolCache ==
    \/ \E operation \in CachingOperations : BeginOperation(operation) /\ OnlySymbolCache
    \/ \E operation \in CachingOperations : ResumeOperation(operation) /\ OnlySymbolCache

\* A SourceDocument, with or without symbols from its SourceFile, on which some of
\* the operations are called.
InitSymbolCache ==
    /\ cacheDocument \in [pragmaOnce : BOOLEAN, includes : BOOLEAN]
    /\ operationPc \in [CachingOperations -> {"start", "idle"}]
    /\ cachedSymbols \in {None} \cup ProvidedSymbolLists
    /\ providerCalls = 0
    /\ replacements = 0
    /\ IdleButSymbolCache

SpecSymbolCache == InitSymbolCache /\ [][NextSymbolCache]_vars

(***************************************************************************)
(* formatTextToInsert.  A text is a sequence of tokens: a word, an end of  *)
(* line, or one unit of indentation.  A line of the document is            *)
(* [indentation, content], a number of units and what follows them: "",    *)
(* "{", "}" or another word.  Lines are numbered from 0.                   *)
(***************************************************************************)
\* util.indentation(): one unit of indentation.
IndentationUnit == "    "

\* util.endOfLine(sourceDoc)
EndOfLine == "\n"

AccessSpecifiers == {"public", "protected", "private"}

\* n units of indentation.
IndentationOf(n) == [i \in 1..n |-> IndentationUnit]

\* util.insertBeforeEachLine(text, prefix), that is text.replace(/^/gm, prefix): the
\* prefix at the start of the text and after every end of line.
RECURSIVE AfterEachEndOfLine(_, _)
AfterEachEndOfLine(tokens, prefix) ==
    IF tokens = <<>> THEN <<>>
    ELSE IF Head(tokens) = EndOfLine
         THEN <<EndOfLine>> \o prefix \o AfterEachEndOfLine(Tail(tokens), prefix)
         ELSE <<Head(tokens)>> \o AfterEachEndOfLine(Tail(tokens), prefix)

InsertBeforeEachLine(tokens, prefix) == prefix \o AfterEachEndOfLine(tokens, prefix)

\* replace(new RegExp(util.indentation() + '(?=(public|protected|private))', 'g'), '')
RECURSIVE WithoutAccessSpecifierIndentation(_)
WithoutAccessSpecifierIndentation(tokens) ==
    IF tokens = <<>> THEN <<>>
    ELSE IF /\ Head(tokens) = IndentationUnit
            /\ Len(tokens) > 1 /\ tokens[2] \in AccessSpecifiers
         THEN WithoutAccessSpecifierIndentation(Tail(tokens))
         ELSE <<Head(tokens)>> \o WithoutAccessSpecifierIndentation(Tail(tokens))

\* TextLine.isEmptyOrWhitespace of a line of the document
IsBlankLine(line) == line.content = ""

\* The line formatTextToInsert looks at to choose one or two ends of line: None, or
\* the number of the line.
NextLineOf(position, lineCount) ==
    IF position.after /\ position.line < lineCount - 1 THEN [line |-> position.line + 1]
    ELSE IF position.before /\ position.line > 0 THEN [line |-> position.line - 1]
    ELSE None

\* formatTextToInsert(insertText, position, sourceDoc)
FormatTextToInsert(tokens, position, document) ==
    LET lineCount == Len(document)
        indented == IF position.indent
                    THEN InsertBeforeEachLine(tokens, <<IndentationUnit>>)
                    ELSE tokens
        indentationLine == IF position.relativeTo # None
                           THEN document[position.relativeTo.line + 1]
                           ELSE document[position.line + 1]
        indentation == IndentationOf(indentationLine.indentation)
        aligned == IF ~position.before
                   THEN InsertBeforeEachLine(indented, indentation)
                   ELSE AfterEachEndOfLine(indented, indentation)
        specifiers == WithoutAccessSpecifierIndentation(aligned)
        nextLine == NextLineOf(position, lineCount)
        next == IF nextLine = None THEN [indentation |-> 0, content |-> ""]
                ELSE document[nextLine.line + 1]
        newLines == IF \/ position.nextTo
                       \/ nextLine = None
                       \/ ~IsBlankLine(next) /\ position.after /\ next.content # "}"
                       \/ ~IsBlankLine(next) /\ position.before /\ next.content # "{"
                    THEN <<EndOfLine>>
                    ELSE <<EndOfLine, EndOfLine>>
        separated == IF position.after THEN newLines \o specifiers
                     ELSE IF position.before THEN specifiers \o newLines
                     ELSE specifiers
        ended == IF position.line = lineCount - 1 THEN separated \o <<EndOfLine>>
                 ELSE separated
    IN  IF position.before THEN ended \o indentation ELSE ended

FormatText ==
    /\ formatPc = "start"
    /\ formattedText' = [text |-> FormatTextToInsert(insertText, formatPosition, formatDocument)]
    /\ formatPc' = "done"
    /\ UNCHANGED <<formatDocument, formatPosition, insertText>>

NextFormatText == FormatText /\ OnlyFormatText

\* The lines a document is made of.
DocumentLines == [indentation : {0, 1}, content : {"", "x", "{", "}"}]

\* The texts to insert.
InsertTexts ==
    {<<>>, <<"x">>, <<"x", EndOfLine, "y">>, <<"x", EndOfLine>>,
     <<IndentationUnit, "public", EndOfLine, "x">>, <<"public">>}

\* A document of one to MaxDocumentLines lines, a position on one of its lines with
\* any options, and a text.
InitFormatText ==
    /\ \E lineCount \in 1..MaxDocumentLines :
          /\ formatDocument \in [1..lineCount -> DocumentLines]
          /\ formatPosition \in
                 [line : 0..(lineCount - 1),
                  before : BOOLEAN, after : BOOLEAN, nextTo : BOOLEAN, indent : BOOLEAN,
                  relativeTo : {None} \cup {[line |-> l] : l \in 0..(lineCount - 1)}]
    /\ insertText \in InsertTexts
    /\ formatPc = "start"
    /\ formattedText = None
    /\ IdleButFormatText

SpecFormatText == InitFormatText /\ [][NextFormatText]_vars

(***************************************************************************)
(* CSymbol.newFunctionDeclaration and CSymbol.newFunctionDefinition.  The  *)
(* symbol is [kind, detail, name, text, nameIndex, isConstructor]: text is *)
(* the tokens of its range, nameIndex the index of its name in them, and   *)
(* isConstructor what isConstructor() answers.  The document is the text   *)
(* before the symbol followed by the text of the symbol; positions are     *)
(* indexes of tokens in it.  The texts hold no comment and no quote.       *)
(***************************************************************************)
IsSpace(token) == token \in {" ", "\n"}

\* The index getTrueStart returns: the start of the template clause right before
\* the symbol, or range.start.
TrueStartIndex(preceding) ==
    LET maskedText == MaskAngleBrackets(preceding, 1)
        n == TemplateTrimEnd(maskedText)
        lastMatch == LastTemplateMatch(maskedText, n, 1, 0)
    IN  IF n = 0 \/ maskedText[n] # ">" THEN Len(preceding) + 1
        ELSE IF lastMatch = 0 \/ TemplateTokenOffset(maskedText, lastMatch) = 0
             THEN Len(preceding) + 1
             ELSE lastMatch

\* util.maskParentheses(text, true): what is between the outermost parentheses
\* becomes spaces.
RECURSIVE MaskParentheses(_, _)
MaskParentheses(tokens, depth) ==
    IF tokens = <<>> THEN <<>>
    ELSE LET t == Head(tokens)
         IN  IF t = "("
             THEN <<IF depth = 0 THEN "(" ELSE " ">> \o MaskParentheses(Tail(tokens), depth + 1)
             ELSE IF t = ")"
             THEN <<IF depth <= 1 THEN ")" ELSE " ">>
                      \o MaskParentheses(Tail(tokens), IF depth > 0 THEN depth - 1 ELSE 0)
             ELSE <<IF depth > 0 THEN " " ELSE t>> \o MaskParentheses(Tail(tokens), depth)

\* The index where /\s*<token>/ first matches at or after `from`, 0 when it does
\* not: the start of the whitespace before the first such token.
FirstAfterSpace(tokens, token, from, to) ==
    LET found == {j \in from..to : tokens[j] = token}
        first == CHOOSE j \in found : \A k \in found : j <= k
        starts == {i \in from..first : \A k \in i..(first - 1) : IsSpace(tokens[k])}
    IN  IF found = {} THEN 0 ELSE CHOOSE i \in starts : \A k \in starts : i <= k

\* The index where /\s*:(?!:)/ first matches in the tokens from..to, 0 when it
\* does not: the start of the whitespace before the first `:` that no `:`
\* follows.  A `::` is two tokens, and its second `:` is such a colon.
FirstInitializerColon(tokens, from, to) ==
    LET found == {j \in from..to : tokens[j] = ":" /\ (j = to \/ tokens[j + 1] # ":")}
        first == CHOOSE j \in found : \A k \in found : j <= k
        starts == {i \in from..first : \A k \in i..(first - 1) : IsSpace(tokens[k])}
    IN  IF found = {} THEN 0 ELSE CHOOSE i \in starts : \A k \in starts : i <= k

\* CSymbol.bodyStart(declaration): an index in the text of the symbol, Len + 1 for
\* range.end.  ofConstructor says that the symbol or the declaration given is a
\* constructor.
BodyStartOf(symbol, ofConstructor) ==
    LET nameEnd == symbol.nameIndex + 1
    IN  Once(MaskParentheses(symbol.text, 0), LAMBDA maskedText :
        Once(FirstAfterSpace(maskedText, "{", nameEnd, Len(maskedText)), LAMBDA bodyStartIndex :
        Once(FirstInitializerColon(maskedText, nameEnd, bodyStartIndex - 1), LAMBDA initializerIndex :
            IF bodyStartIndex = 0 \/ bodyStartIndex = nameEnd THEN Len(symbol.text) + 1
            ELSE IF ~ofConstructor THEN bodyStartIndex
            ELSE IF initializerIndex = 0 \/ initializerIndex = nameEnd THEN bodyStartIndex
            ELSE initializerIndex)))

\* CSymbol.bodyStart()
BodyStart(symbol) == BodyStartOf(symbol, symbol.isConstructor)

\* String.trimEnd
TrimEnd(tokens) ==
    LET kept == {n \in 0..Len(tokens) : \A i \in (n + 1)..Len(tokens) : IsSpace(tokens[i])}
    IN  SubSeq(tokens, 1, CHOOSE n \in kept : \A m \in kept : n <= m)

\* document.getText(new vscode.Range(this.getTrueStart(), this.bodyStart()))
DeclarationText(symbol, preceding) ==
    SubSeq(preceding \o symbol.text, TrueStartIndex(preceding),
           Len(preceding) + BodyStart(symbol) - 1)

\* A stand-in for NewFunctionDeclaration that does not test the symbol.
NewFunctionDeclarationOfAny(symbol, preceding) ==
    Once(DeclarationText(symbol, preceding), LAMBDA text : TrimEnd(text) \o <<";">>)

\* CSymbol.newFunctionDeclaration
NewFunctionDeclaration(symbol, preceding) ==
    IF ~IsFunctionDefinition(symbol) THEN <<>>
    ELSE Once(DeclarationText(symbol, preceding), LAMBDA text : TrimEnd(text) \o <<";">>)

\* CSymbol.stripDefaultValues works on a parameter list given as tokens; a comment
\* opens with the token slash-star and closes with star-slash, a comparison
\* operator is one token.  The masking functions of util put a space in the
\* place of each token they mask, so indexes are kept.
\* util.maskComments and util.maskQuotes: what is between an opening and the next
\* closing delimiter becomes spaces.
RECURSIVE MaskBetween(_, _, _, _)
MaskBetween(tokens, left, right, inside) ==
    IF tokens = <<>> THEN <<>>
    ELSE IF inside
         THEN (IF Head(tokens) = right
               THEN <<right>> \o MaskBetween(Tail(tokens), left, right, FALSE)
               ELSE <<" ">> \o MaskBetween(Tail(tokens), left, right, TRUE))
         ELSE <<Head(tokens)>> \o MaskBetween(Tail(tokens), left, right, Head(tokens) = left)

\* util.maskBraces and util.maskBrackets: what is between the outermost brackets
\* becomes spaces.
RECURSIVE MaskBalanced(_, _, _, _)
MaskBalanced(tokens, left, right, depth) ==
    IF tokens = <<>> THEN <<>>
    ELSE LET t == Head(tokens)
         IN  IF t = left
             THEN <<IF depth = 0 THEN left ELSE " ">>
                      \o MaskBalanced(Tail(tokens), left, right, depth + 1)
             ELSE IF t = right
             THEN <<IF depth <= 1 THEN right ELSE " ">>
                      \o MaskBalanced(Tail(tokens), left, right, IF depth > 0 THEN depth - 1 ELSE 0)
             ELSE <<IF depth > 0 THEN " " ELSE t>>
                      \o MaskBalanced(Tail(tokens), left, right, depth)

ComparisonOperators == {"==", "!=", "<=", ">="}

\* util.maskComparisonOperators
MaskComparisonOperators(tokens) ==
    [i \in 1..Len(tokens) |-> IF tokens[i] \in ComparisonOperators THEN " " ELSE tokens[i]]

\* The parameters with all that might contain commas or equals-signs masked.
MaskedParameters(parameters) ==
    MaskComparisonOperators(
        MaskBalanced(
            MaskBalanced(
                MaskAngleBrackets(
                    MaskParentheses(
                        MaskBetween(
                            MaskBetween(MaskBetween(parameters, "/*", "*/", FALSE),
                                        "\"", "\"", FALSE),
                            "'", "'", FALSE),
                        0),
                    1),
                "{", "}", 0),
            "[", "]", 0))

\* The index of the first token c of s at or after index from, Len(s) + 1 when
\* there is none.
NextIndexOf(s, c, from) ==
    LET found == {i \in from..Len(s) : s[i] = c}
    IN  IF found = {} THEN Len(s) + 1 ELSE CHOOSE i \in found : \A k \in found : i <= k

\* What the loop adds for the parameter that starts at charPos and ends before
\* index end, without the trimEnd.
StrippedParameterUntrimmed(parameters, maskedParameters, charPos, end) ==
    SubSeq(parameters, charPos, Min(NextIndexOf(maskedParameters, "=", charPos), end) - 1)

\* What the loop adds for the parameter that starts at charPos and ends before
\* index end: the text before its `=` without trailing whitespace, or all of it.
StrippedParameter(parameters, maskedParameters, charPos, end) ==
    IF NextIndexOf(maskedParameters, "=", charPos) < end
    THEN TrimEnd(SubSeq(parameters, charPos, NextIndexOf(maskedParameters, "=", charPos) - 1))
    ELSE SubSeq(parameters, charPos, end - 1)

\* The loop over maskedParameters.split(','), from the parameter at charPos on.
RECURSIVE StripFrom(_, _, _)
StripFrom(parameters, maskedParameters, charPos) ==
    Once(NextIndexOf(maskedParameters, ",", charPos), LAMBDA end :
        StrippedParameter(parameters, maskedParameters, charPos, end)
            \o (IF end > Len(parameters) THEN <<>>
                ELSE <<",">> \o StripFrom(parameters, maskedParameters, end + 1)))

RECURSIVE StripFromUntrimmed(_, _, _)
\* A stand-in for StripFrom that keeps the whitespace before `=`.
StripFromUntrimmed(parameters, maskedParameters, charPos) ==
    Once(NextIndexOf(maskedParameters, ",", charPos), LAMBDA end :
        StrippedParameterUntrimmed(parameters, maskedParameters, charPos, end)
            \o (IF end > Len(parameters) THEN <<>>
                ELSE <<",">> \o StripFromUntrimmed(parameters, maskedParameters, end + 1)))

\* A stand-in for StripDefaultValues that keeps the whitespace before `=`.
StripDefaultValuesUntrimmed(parameters) ==
    Once(MaskedParameters(parameters), LAMBDA maskedParameters :
        StripFromUntrimmed(parameters, maskedParameters, 1))

\* CSymbol.stripDefaultValues
StripDefaultValues(parameters) ==
    Once(MaskedParameters(parameters), LAMBDA maskedParameters :
        StripFrom(parameters, maskedParameters, 1))

\* replace(/\b(virtual|static|explicit|friend)\b\s*/g, '') and replace(/^\s+/gm, '')
RECURSIVE WithoutSpecifiers(_, _)
WithoutSpecifiers(tokens, skipping) ==
    IF tokens = <<>> THEN <<>>
    ELSE IF Head(tokens) \in {"virtual", "static", "explicit", "friend"}
         THEN WithoutSpecifiers(Tail(tokens), TRUE)
    ELSE IF skipping /\ IsSpace(Head(tokens)) THEN WithoutSpecifiers(Tail(tokens), TRUE)
    ELSE <<Head(tokens)>> \o WithoutSpecifiers(Tail(tokens), Head(tokens) = "\n")

\* replace(/\s*\b(override|final)\b/g, '')
RECURSIVE WithoutOverrideFinal(_)
WithoutOverrideFinal(tokens) ==
    IF tokens = <<>> THEN <<>>
    ELSE IF Head(tokens) \in {"override", "final"} THEN WithoutOverrideFinal(Tail(tokens))
    ELSE IF /\ IsSpace(Head(tokens))
            /\ LET next == FirstAfterSpace(tokens, "override", 1, Len(tokens))
                   last == FirstAfterSpace(tokens, "final", 1, Len(tokens))
               IN  next = 1 \/ last = 1
         THEN WithoutOverrideFinal(Tail(tokens))
         ELSE <<Head(tokens)>> \o WithoutOverrideFinal(Tail(tokens))

\* String.substring(start, end), the indexes counted from 1 and `to` being the
\* last index taken: the two ends are swapped when start is after end.
Substring(s, from, to) ==
    IF from <= to + 1 THEN SubSeq(s, Max(from, 1), Min(to, Len(s)))
    ELSE SubSeq(s, Max(to + 1, 1), Min(from - 1, Len(s)))

\* maskedDeclaration.indexOf('(', nameEndIndex) + 1 as an index counted from 1:
\* the index after the first `(` after the name, and 1 when there is none
\* (indexOf answers -1, to which 1 is added).
ParamStartIndex(maskedDeclaration, nameAt) ==
    LET opening == {i \in (nameAt + 1)..Len(maskedDeclaration) : maskedDeclaration[i] = "("}
    IN  IF opening = {} THEN 1 ELSE (CHOOSE i \in opening : \A k \in opening : i <= k) + 1

\* maskedDeclaration.indexOf(')') as an index counted from 1, 0 for -1.
ParamEndIndex(maskedDeclaration) ==
    LET closing == {i \in 1..Len(maskedDeclaration) : maskedDeclaration[i] = ")"}
    IN  IF closing = {} THEN 0 ELSE CHOOSE i \in closing : \A k \in closing : i <= k

\* The definition formatDeclarationForNewDefinition builds from the declaration
\* without its `;`, the name being at index nameAt of it.  The test
\* paramStartIndex === -1 of the code is never true, 1 having been added.
DefinitionFrom(declaration, maskedDeclaration, nameAt, name, scope) ==
    LET paramStartIndex == ParamStartIndex(maskedDeclaration, nameAt)
        paramEndIndex == ParamEndIndex(maskedDeclaration)
        parameters == StripDefaultValues(
                          Substring(declaration, paramStartIndex, paramEndIndex - 1))
        leadingText == WithoutSpecifiers(SubSeq(declaration, 1, nameAt - 1), TRUE)
        definition == <<name, "(">> \o parameters \o <<")">>
                          \o SubSeq(declaration, paramEndIndex + 1, Len(declaration))
    IN  IF paramEndIndex = 0 THEN <<>>
        ELSE Once(leadingText \o scope \o definition, LAMBDA text : WithoutOverrideFinal(text))

\* CSymbol.formatDeclarationForNewDefinition, for a declaration on one line
FormatDeclarationForNewDefinition(symbol, preceding, scope) ==
    Once(DeclarationText(symbol, preceding), LAMBDA text :
    Once(IF text # <<>> /\ text[Len(text)] = ";" THEN SubSeq(text, 1, Len(text) - 1) ELSE text,
         LAMBDA declaration :
    Once(MaskParentheses(declaration, 0), LAMBDA maskedDeclaration :
        DefinitionFrom(declaration, maskedDeclaration,
                       Len(preceding) + symbol.nameIndex - TrueStartIndex(preceding) + 1,
                       symbol.name, scope))))

\* CSymbol.newFunctionDefinition
NewFunctionDefinition(symbol, preceding, scope) ==
    IF ~IsFunctionDeclaration(symbol) THEN <<>>
    ELSE FormatDeclarationForNewDefinition(symbol, preceding, scope)

CallNewFunctionDeclaration ==
    /\ functionSymbol # None /\ newDeclaration = None
    /\ newDeclaration' = [text |-> NewFunctionDeclaration(functionSymbol, textBeforeFunction)]
    /\ UNCHANGED <<functionSymbol, textBeforeFunction, scopeString, newDefinition,
                   counterpart, bodyStartResult>>

CallNewFunctionDefinition ==
    /\ functionSymbol # None /\ newDefinition = None
    /\ newDefinition' =
           [text |-> NewFunctionDefinition(functionSymbol, textBeforeFunction, scopeString)]
    /\ UNCHANGED <<functionSymbol, textBeforeFunction, scopeString, newDeclaration,
                   counterpart, bodyStartResult>>

NextNewFunction ==
    \/ CallNewFunctionDeclaration /\ OnlyNewFunction
    \/ CallNewFunctionDefinition /\ OnlyNewFunction

\* What comes after the parameter list of a function.
FunctionEndings ==
    {<<>>, <<";">>, <<" ", "{", "}">>, <<"\n", "{", "}">>, <<"{", "}">>,
     <<" ", "override", ";">>, <<" ", ":", " ", "m", "(", "0", ")", " ", "{", "}">>,
     <<" ", "requires", " ", "std", ":", ":", "C", " ", "{", "}">>}

\* The types before the name of a function.
ReturnTypes == {<<"int">>, <<"decltype", "(", "g", ")">>}

\* The parameter lists after it: none (a function declared through a function
\* type), an empty one, one parameter with a default value.
ParameterLists == {<<>>, <<"(", ")">>, <<"(", "int", " ", "a", " ", "=", " ", "1", ")">>}

\* The symbols the methods are called on: functions and variables named f.
NewFunctionSymbols ==
    {[kind |-> kind, detail |-> detail, name |-> "f",
      text |-> specifier \o returnType \o <<" ", "f">> \o parameterList \o ending,
      nameIndex |-> Len(specifier) + Len(returnType) + 2, isConstructor |-> constructor] :
        kind \in {"Function", "Method", "Variable"}, detail \in {"", "declaration"},
        specifier \in {<<>>, <<"static", " ">>},
        returnType \in ReturnTypes, parameterList \in ParameterLists,
        ending \in FunctionEndings, constructor \in BOOLEAN}

\* The texts before the symbol.
TextsBeforeFunction ==
    {<<>>, <<";", "\n">>, <<"template", "<", "T", ">", "\n">>,
     <<";", "\n", "template", "<", "T", ">", " ">>}

InitNewFunction ==
    /\ functionSymbol \in NewFunctionSymbols
    /\ textBeforeFunction \in TextsBeforeFunction
    /\ scopeString \in {<<>>, <<"A", "::">>}
    /\ newDeclaration = None /\ newDefinition = None
    /\ counterpart = None /\ bodyStartResult = None
    /\ IdleButNewFunction

SpecNewFunction == InitNewFunction /\ [][NextNewFunction]_vars

(***************************************************************************)
(* CSymbol.bodyStart called on a symbol, without or with the declaration   *)
(* that combineDefinition hands it.                                        *)
(***************************************************************************)
CallBodyStart ==
    /\ functionSymbol # None /\ bodyStartResult = None
    /\ \E given \in {None} \cup {[isConstructor |-> b] : b \in BOOLEAN} :
          /\ counterpart' = given
          /\ bodyStartResult' =
                 [index |-> BodyStartOf(functionSymbol,
                                        \/ functionSymbol.isConstructor
                                        \/ given # None /\ given.isConstructor)]
    /\ UNCHANGED <<functionSymbol, textBeforeFunction, scopeString, newDeclaration, newDefinition>>

NextBodyStart == CallBodyStart /\ OnlyNewFunction

InitBodyStart ==
    /\ functionSymbol \in NewFunctionSymbols
    /\ textBeforeFunction = <<>> /\ scopeString = <<>>
    /\ newDeclaration = None /\ newDefinition = None
    /\ counterpart = None /\ bodyStartResult = None
    /\ IdleButNewFunction

SpecBodyStart == InitBodyStart /\ [][NextBodyStart]_vars

(***************************************************************************)
(* CSymbol.stripDefaultValues applied to a parameter list, and applied     *)
(* again to what it returned.                                              *)
(***************************************************************************)
\* The text of one parameter.
ParameterText(given) ==
    given.declarator
        \o (IF given.value = None THEN <<>>
            ELSE given.spacing \o <<"=">> \o given.value.tokens)

\* The text of a list of parameters: they are separated by a comma and a space.
RECURSIVE ParametersText(_)
ParametersText(given) ==
    IF given = <<>> THEN <<>>
    ELSE ParameterText(Head(given))
             \o (IF Len(given) = 1 THEN <<>> ELSE <<",", " ">> \o ParametersText(Tail(given)))

StripOnce ==
    /\ stripPc = "given"
    /\ strippedOnce' = [text |-> StripDefaultValues(ParametersText(givenParameters))]
    /\ stripPc' = "once"
    /\ UNCHANGED <<givenParameters, strippedTwice>>

StripAgain ==
    /\ stripPc = "once"
    /\ strippedTwice' = [text |-> StripDefaultValues(strippedOnce.text)]
    /\ stripPc' = "twice"
    /\ UNCHANGED <<givenParameters, strippedOnce>>

NextStripDefaultValues ==
    \/ StripOnce /\ OnlyStripDefaultValues
    \/ StripAgain /\ OnlyStripDefaultValues

\* The parameters a list is made of.  A declarator or a value may hold commas
\* and equals-signs inside a comment, quotes, parentheses, angle brackets, braces
\* or brackets.
Declarators ==
    {<<"int", " ", "a">>,
     <<"int", " ", "c">>,
     <<"std::vector", "<", "int", ">", " ", "b">>,
     <<"std::map", "<", "K", ",", " ", "V", ">", " ", "m">>,
     <<"int", " ", "e", " ", "/*", " ", "=", " ", "0", ",", " ", "*/">>,
     <<"void", " ", "(", "*", "p", ")", "(", "int", ",", " ", "int", ")">>}

DefaultValues ==
    {<<" ", "1">>,
     <<" ", "{", "1", ",", "2", "}">>,
     <<" ", "g", "(", "1", ",", " ", "h", "=", "2", ")">>,
     <<" ", "'", ",", "'">>,
     <<" ", "\"", "=", ",", "\"">>,
     <<" ", "w", "[", "1", ",", "2", "]">>,
     <<" ", "u", " ", "==", " ", "v">>,
     <<"u", "!=", "v">>}

\* Each parameter is written on its own or with a default value; parameter a is
\* also written with no space and with two spaces before `=`.
Parameters ==
    {[declarator |-> d, spacing |-> <<" ">>, value |-> None] : d \in Declarators \ {<<"int", " ", "a">>, <<"std::vector", "<", "int", ">", " ", "b">>}}
    \cup {[declarator |-> <<"int", " ", "a">>, spacing |-> s, value |-> [tokens |-> <<" ", "1">>]] :
              s \in {<<>>, <<" ">>, <<" ", " ">>}}
    \cup {[declarator |-> <<"int", " ", "a">>, spacing |-> <<>>, value |-> [tokens |-> <<"u", "!=", "v">>]]}
    \cup {[declarator |-> <<"std::vector", "<", "int", ">", " ", "b">>, spacing |-> <<" ">>,
           value |-> [tokens |-> v]] : v \in DefaultValues \ {<<" ", "1">>, <<"u", "!=", "v">>}}

InitStripDefaultValues ==
    /\ givenParameters \in SeqsUpTo(Parameters, MaxParameters)
    /\ stripPc = "given"
    /\ strippedOnce = None /\ strippedTwice = None
    /\ IdleButStripDefaultValues

SpecStripDefaultValues == InitStripDefaultValues /\ [][NextStripDefaultValues]_vars

(***************************************************************************)
(* CSymbol.getLeadingCommentStart.  The symbol starts at column 0 of the   *)
(* line below the lines given, and no template clause precedes it, so that *)
(* getTrueStart() is that position.  A line is a sequence of tokens: the   *)
(* comment delimiters are tokens of two characters, every other token is   *)
(* one character.  A block comment is closed on the line it opens on.      *)
(***************************************************************************)
CommentDelimiters == {"//", "/*", "*/"}

\* The length of a line up to token i, in characters.
RECURSIVE ColumnOf(_, _)
ColumnOf(line, i) ==
    IF i <= 1 THEN 0
    ELSE ColumnOf(line, i - 1) + (IF line[i - 1] \in CommentDelimiters THEN 2 ELSE 1)

\* util.maskComments(text, true) on one line: the text of a comment becomes spaces,
\* its delimiters stay.
RECURSIVE MaskCommentText(_, _)
MaskCommentText(line, mode) ==
    IF line = <<>> THEN <<>>
    ELSE LET t == Head(line)
         IN  IF mode = "line" THEN <<" ">> \o MaskCommentText(Tail(line), "line")
             ELSE IF mode = "block"
             THEN (IF t = "*/" THEN <<t>> \o MaskCommentText(Tail(line), "code")
                   ELSE <<" ">> \o MaskCommentText(Tail(line), "block"))
             ELSE <<t>> \o MaskCommentText(Tail(line),
                               IF t = "//" THEN "line" ELSE IF t = "/*" THEN "block" ELSE "code")

\* The last token of maskedText after trimEnd(), "" when nothing is left: the
\* last token that is not a space of the last line that holds one.
LastMaskedToken(above) ==
    LET masked == [l \in 1..Len(above) |-> MaskCommentText(above[l], "code")]
        holding == {l \in 1..Len(above) : \E i \in 1..Len(masked[l]) : masked[l][i] # " "}
        last == CHOOSE l \in holding : \A k \in holding : k <= l
        found == {i \in 1..Len(masked[last]) : masked[last][i] # " "}
    IN  IF holding = {} THEN ""
        ELSE masked[last][CHOOSE i \in found : \A k \in found : k <= i]

\* document.positionAt(maskedText.lastIndexOf('/*'))
LastBlockCommentStart(above) ==
    LET opening == {l \in 1..Len(above) : \E i \in 1..Len(above[l]) : above[l][i] = "/*"}
        last == CHOOSE l \in opening : \A k \in opening : k <= l
        found == {i \in 1..Len(above[last]) : above[last][i] = "/*"}
    IN  IF opening = {} THEN None
        ELSE Pos(last - 1, ColumnOf(above[last], CHOOSE i \in found : \A k \in found : k <= i))

\* line.text.trimStart().startsWith('//')
StartsWithLineComment(line) ==
    \E i \in 1..Len(line) : line[i] = "//" /\ \A k \in 1..(i - 1) : line[k] = " "

\* line.text.indexOf('//') as a column, -1 when the line has no `//`
IndexOfLineComment(line) ==
    LET found == {i \in 1..Len(line) : line[i] = "//"}
    IN  IF found = {} THEN -1 ELSE ColumnOf(line, CHOOSE i \in found : \A k \in found : i <= k)

\* The loop `for (let i = this.getTrueStart().line - 1; i >= 0; --i)`, the document
\* being the lines above and the line of the symbol, which holds no comment:
\* None when the loop ends or breaks without a position.
RECURSIVE WalkUpLineComments(_, _)
WalkUpLineComments(document, i) ==
    IF i < 0 THEN None
    ELSE IF ~StartsWithLineComment(document[i + 1])
         THEN (IF IndexOfLineComment(document[i + 2]) = -1 THEN None
               ELSE Pos(i + 1, IndexOfLineComment(document[i + 2])))
         ELSE WalkUpLineComments(document, i - 1)

\* The line of the symbol.
SymbolLine == <<"x", ";">>

\* getTrueStart() of the symbol
TrueStartBelow(above) == Pos(Len(above), 0)

\* What getLeadingCommentStart computes when headerCommentStart is not set.
ComputeLeadingCommentStart(above) ==
    LET last == LastMaskedToken(above)
        walked == WalkUpLineComments(above \o <<SymbolLine>>, Len(above) - 1)
    IN  IF last \notin {"//", "*/"} THEN TrueStartBelow(above)
        ELSE IF last = "*/"
        THEN (IF LastBlockCommentStart(above) # None THEN LastBlockCommentStart(above)
              ELSE TrueStartBelow(above))
        ELSE IF walked # None THEN walked
        ELSE TrueStartBelow(above)

GetLeadingCommentStart ==
    /\ leadingCommentPc \in {"start", "called"}
    /\ IF headerCommentStart # None
       THEN leadingCommentResult' = headerCommentStart /\ UNCHANGED headerCommentStart
       ELSE /\ headerCommentStart' = ComputeLeadingCommentStart(linesAbove)
            /\ leadingCommentResult' = ComputeLeadingCommentStart(linesAbove)
    /\ leadingCommentPc' = IF leadingCommentPc = "start" THEN "called" ELSE "done"
    /\ UNCHANGED linesAbove

NextLeadingComment == GetLeadingCommentStart /\ OnlyLeadingComment

\* The lines above a symbol: a line comment, an indented one, code, code followed
\* by a line comment, a blank line, a block comment.
LinesAboveChoices ==
    {<<"//", "c">>, <<" ", "//", "c">>, <<"x", ";">>, <<"x", ";", " ", "//", "c">>, <<>>,
     <<"/*", "c", "*/">>}

InitLeadingComment ==
    /\ linesAbove \in SeqsUpTo(LinesAboveChoices, MaxLinesAbove)
    /\ leadingCommentPc = "start"
    /\ headerCommentStart = None /\ leadingCommentResult = None
    /\ IdleButLeadingComment

SpecLeadingComment == InitLeadingComment /\ [][NextLeadingComment]_vars

(***************************************************************************)
(* CodeActionProvider.provideCodeActions.  It awaits getRefactorings and   *)
(* getSourceActions together.  A symbol is [kind, detail, text, nameIndex, *)
(* member]; a code action is [command, target, disabled], disabled being   *)
(* the reason, or "" when the action is enabled.                           *)
(***************************************************************************)
\* SourceSymbol.isMemberVariable
IsMemberVariable(symbol) == symbol.member /\ symbol.kind \in {"Field", "Property"}

\* leadingText().match(/\binline\b/), /\bconstexpr\b/ and /\bconst\b/
LeadingTextHas(symbol, word) ==
    \E i \in 1..(symbol.nameIndex - 1) : symbol.text[i] = word

CodeAction(command, target, disabled) ==
    [command |-> command, target |-> target, disabled |-> disabled]

\* A stand-in for AddDefinitionInMatchingSourceFileDisabled that forgets the
\* existing definition.
AddDefinitionInMatchingSourceFileDisabledAnyway(symbol, existingDefinition) ==
    IF ~documentIsHeader THEN "notHeaderFile"
    ELSE IF ~hasMatchingUri THEN "noMatchingSourceFile"
    ELSE IF LeadingTextHas(symbol, "constexpr") THEN "isConstexpr"
    ELSE IF LeadingTextHas(symbol, "inline") THEN "isInline"
    ELSE ""

\* The reason of `Add Definition in matching source file`: the last assignment
\* made to addDefinitionInMatchingSourceFileDisabled.
AddDefinitionInMatchingSourceFileDisabled(symbol, existingDefinition) ==
    IF ~documentIsHeader THEN "notHeaderFile"
    ELSE IF ~hasMatchingUri THEN "noMatchingSourceFile"
    ELSE IF existingDefinition THEN "definitionExists"
    ELSE IF LeadingTextHas(symbol, "constexpr") THEN "isConstexpr"
    ELSE IF LeadingTextHas(symbol, "inline") THEN "isInline"
    ELSE ""

\* getFunctionDeclarationRefactorings
GetFunctionDeclarationRefactorings(symbol, existingDefinition) ==
    <<CodeAction("cmantic.addDefinition", "matchingUri",
                 AddDefinitionInMatchingSourceFileDisabled(symbol, existingDefinition)),
      CodeAction("cmantic.addDefinition", "sourceDoc.uri",
                 IF existingDefinition THEN "definitionExists" ELSE "")>>

\* getFunctionDefinitionRefactorings: declarationKind is "none" when findDeclaration
\* finds nothing, and otherwise says whether the declaration found is a method.
GetFunctionDefinitionRefactorings(symbol, declarationKind) ==
    <<CodeAction("cmantic.moveDefinitionToMatchingSourceFile", "matchingUri",
                 IF ~hasMatchingUri THEN "noMatchingSourceFile"
                 ELSE IF LeadingTextHas(symbol, "constexpr") THEN "isConstexpr"
                 ELSE IF LeadingTextHas(symbol, "inline") THEN "isInline"
                 ELSE ""),
      CodeAction("cmantic.moveDefinitionIntoOrOutOfClass", "sourceDoc.uri",
                 IF ~documentIsCpp THEN "notCpp"
                 ELSE IF declarationKind \notin {"none", "method"} /\ symbol.kind # "Method"
                      THEN "notMethod"
                      ELSE "")>>

\* getMemberVariableRefactorings
GetMemberVariableRefactorings(symbol, getter, setter) ==
    LET isConst == LeadingTextHas(symbol, "const")
    IN  <<CodeAction("cmantic.generateGetterSetterFor", "sourceDoc",
                     IF ~documentIsCpp THEN "notCpp"
                     ELSE IF isConst THEN "isConst"
                     ELSE IF getter \/ setter THEN "getterOrSetterExists" ELSE ""),
          CodeAction("cmantic.generateGetterFor", "sourceDoc",
                     IF ~documentIsCpp THEN "notCpp"
                     ELSE IF getter THEN "getterExists" ELSE ""),
          CodeAction("cmantic.generateSetterFor", "sourceDoc",
                     IF ~documentIsCpp THEN "notCpp"
                     ELSE IF isConst THEN "isConst"
                     ELSE IF setter THEN "setterExists" ELSE "")>>

\* A stand-in for FamilyOf that tests the definition first.
FamilyOfDefinitionFirst(selected) ==
    IF ~selected.found THEN "none"
    ELSE IF IsFunction(selected.symbol) /\ EndsWithBrace(selected.symbol) THEN "definition"
    ELSE IF IsFunctionDeclaration(selected.symbol) THEN "declaration"
    ELSE IF IsMemberVariable(selected.symbol) THEN "memberVariable"
    ELSE "none"

\* The branch getRefactorings takes.
FamilyOf(selected) ==
    IF ~selected.found THEN "none"
    ELSE IF IsFunctionDeclaration(selected.symbol) THEN "declaration"
    ELSE IF IsFunctionDefinition(selected.symbol) THEN "definition"
    ELSE IF IsMemberVariable(selected.symbol) THEN "memberVariable"
    ELSE "none"

\* What the navigation and the parent of the symbol may answer to the builder of
\* a family.
NavigationAnswers(family) ==
    IF family = "declaration" THEN {[existingDefinition |-> b] : b \in BOOLEAN}
    ELSE IF family = "definition" THEN {[declared |-> d] : d \in {"none", "method", "function"}}
    ELSE IF family = "memberVariable" THEN [getter : BOOLEAN, setter : BOOLEAN]
    ELSE {[nothing |-> TRUE]}

\* getRefactorings
GetRefactorings ==
    /\ selectedSymbol # None /\ refactorings = None
    /\ \E answer \in NavigationAnswers(FamilyOf(selectedSymbol)) :
          /\ navigation' = answer
          /\ refactorings' =
                 [family |-> FamilyOf(selectedSymbol),
                  actions |->
                      IF FamilyOf(selectedSymbol) = "declaration"
                      THEN GetFunctionDeclarationRefactorings(selectedSymbol.symbol,
                                                              answer.existingDefinition)
                      ELSE IF FamilyOf(selectedSymbol) = "definition"
                      THEN GetFunctionDefinitionRefactorings(selectedSymbol.symbol, answer.declared)
                      ELSE IF FamilyOf(selectedSymbol) = "memberVariable"
                      THEN GetMemberVariableRefactorings(selectedSymbol.symbol,
                                                         answer.getter, answer.setter)
                      ELSE <<>>]
    /\ UNCHANGED <<selectedSymbol, documentIsHeader, documentIsCpp, hasMatchingUri,
                   guardResolved, sourceActions>>

\* What `if (sourceDoc.hasHeaderGuard())` tests: the promise the call returns, an
\* object, whatever it resolves to.
HeaderGuardTest(resolved) == TRUE

\* getSourceActions
GetSourceActions ==
    /\ selectedSymbol # None /\ sourceActions = None
    /\ \E resolved \in BOOLEAN :
          /\ guardResolved' = [value |-> resolved]
          /\ sourceActions' =
                 [actions |->
                     <<CodeAction("cmantic.addHeaderGuard", "",
                                  IF HeaderGuardTest(resolved) THEN "headerGuardExists"
                                  ELSE IF ~documentIsHeader THEN "notHeaderFile"
                                  ELSE ""),
                       CodeAction("cmantic.addInclude", "", ""),
                       CodeAction("cmantic.createMatchingSourceFile", "",
                                  IF ~documentIsHeader THEN "notHeaderFile"
                                  ELSE IF hasMatchingUri THEN "matchingSourceFileExists"
                                  ELSE "")>>]
    /\ UNCHANGED <<selectedSymbol, documentIsHeader, documentIsCpp, hasMatchingUri,
                   navigation, refactorings>>

NextCodeActions ==
    \/ GetRefactorings /\ OnlyCodeActions
    \/ GetSourceActions /\ OnlyCodeActions

\* The symbols at the selection.
SelectedSymbols ==
    {[kind |-> kind, detail |-> detail, member |-> member,
      text |-> leading \o <<"int", " ", "f">> \o ending,
      nameIndex |-> Len(leading) + 3] :
        kind \in {"Function", "Method", "Constructor", "Field", "Property", "Class"},
        detail \in {"", "declaration"}, member \in BOOLEAN,
        leading \in {<<>>, <<"inline", " ">>, <<"constexpr", " ">>, <<"const", " ">>},
        ending \in {<<";">>, <<"(", ")", ";">>, <<"(", ")", " ", "{", "}">>}}

InitCodeActions ==
    /\ selectedSymbol \in {[found |-> FALSE]} \cup {[found |-> TRUE, symbol |-> s] : s \in SelectedSymbols}
    /\ documentIsHeader \in BOOLEAN /\ documentIsCpp \in BOOLEAN /\ hasMatchingUri \in BOOLEAN
    /\ navigation = None /\ refactorings = None
    /\ guardResolved = None /\ sourceActions = None
    /\ IdleButCodeActions

SpecCodeActions == InitCodeActions /\ [][NextCodeActions]_vars

(***************************************************************************)
(* findPositionForNewMemberFunction (src/ProposedPosition.ts).  The        *)
(* symbol it is called on is described by its kind, its start offset and   *)
(* the items of its body in the order of the text: access specifiers and   *)
(* the children the provider reports.  Item i of the body starts           *)
(* two characters times i after the start of the symbol and a child        *)
(* ends one character after it starts; the closing brace takes the place   *)
(* of one more item.                                                       *)
(***************************************************************************)
IsAccessSpecifier(item) == item.kind = "specifier"
IsChild(item) == item.kind # "specifier"

\* The index in parsableText of item i of the body.
IndexOfItem(i) == 2 * i

\* this.children: the items of the body that are symbols, each with the item it is.
MemberChildren(body) ==
    LET F[i \in 0..Len(body)] ==
            IF i = 0 THEN <<>>
            ELSE IF IsChild(body[i])
                 THEN Append(F[i - 1], [kind |-> body[i].kind, name |-> body[i].name,
                                        index |-> IndexOfItem(i)])
                 ELSE F[i - 1]
    IN  F[Len(body)]

\* startOffset() and endOffset() of a child, of the symbol itself.
ChildStartOffset(child, startOffset) == startOffset + child.index
ChildEndOffset(child, startOffset) == startOffset + child.index + 1
OwnerEndOffset(body, startOffset) == startOffset + IndexOfItem(Len(body) + 1) + 1

\* new ProposedPosition(position, options), the position kept as an offset and
\* relativeTo as the index of the child whose range it is.
MemberPosition(offset, child, isBefore, isAfter, isNextTo) ==
    [offset |-> offset, relativeTo |-> child, before |-> isBefore, after |-> isAfter,
     nextTo |-> isNextTo]

\* positionAfterLastChildOrUndefined, None for undefined.
PositionAfterLastChildOrUndefined(children, startOffset) ==
    IF Len(children) > 0
    THEN MemberPosition(ChildEndOffset(children[Len(children)], startOffset),
                        Len(children), FALSE, TRUE, FALSE)
    ELSE None

\* /\bpublic\s*:/g.exec(parsableText)?.index, 0 when nothing matches: the test that
\* follows takes an index of 0 and undefined alike, and the text starts with the
\* keyword of the symbol.
PublicSpecifierIndex(body) ==
    LET at == {i \in 1..Len(body) : IsAccessSpecifier(body[i]) /\ body[i].name = "public"}
    IN  IF at = {} THEN 0 ELSE IndexOfItem(CHOOSE i \in at : \A j \in at : i <= j)

\* The first match of /\w[\w\d]*\s*:(?!:)/g whose index, which counts from the start
\* of the symbol, is greater than publicSpecifierOffset, which counts from the start
\* of the document; 0 when there is none.
NextAccessSpecifierIndex(body, publicSpecifierOffset) ==
    LET at == {i \in 1..Len(body) : /\ IsAccessSpecifier(body[i])
                                    /\ IndexOfItem(i) > publicSpecifierOffset}
    IN  IF at = {} THEN 0 ELSE IndexOfItem(CHOOSE i \in at : \A j \in at : i <= j)

\* isChildFunctionBetween.
IsChildFunctionBetween(child, startOffset, afterOffset, beforeOffset) ==
    /\ child.kind = "Function"
    /\ ChildStartOffset(child, startOffset) > afterOffset
    /\ ChildEndOffset(child, startOffset) < beforeOffset

\* findPositionForNewMemberFunction(relativeName, memberVariable): isGetter is what
\* relativeName === memberVariable.setterName() gives, FALSE without memberVariable.
PositionForNewMemberFunction(kind, body, startOffset, name, isGetter) ==
    LET children == MemberChildren(body)
        publicIndex == PublicSpecifierIndex(body)
        publicSpecifierOffset == publicIndex + startOffset
        nextIndex == NextAccessSpecifierIndex(body, publicSpecifierOffset)
        nextAccessSpecifierOffset ==
            IF nextIndex = 0 THEN OwnerEndOffset(body, startOffset)
            ELSE nextIndex + startOffset
        between == {i \in 1..Len(children) :
                        IsChildFunctionBetween(children[i], startOffset,
                                               publicSpecifierOffset,
                                               nextAccessSpecifierOffset)}
        fallbackIndex == CHOOSE i \in between : \A j \in between : i >= j
        fallbackPosition ==
            MemberPosition(ChildEndOffset(children[fallbackIndex], startOffset),
                           fallbackIndex, FALSE, TRUE, FALSE)
        named == {i \in between : children[i].name = name}
        relative == CHOOSE i \in named : \A j \in named : i >= j
    IN  IF ~IsClassOrStruct(kind)
        THEN PositionAfterLastChildOrUndefined(children, startOffset)
        ELSE IF publicIndex = 0
        THEN PositionAfterLastChildOrUndefined(children, startOffset)
        ELSE IF between = {}
        THEN PositionAfterLastChildOrUndefined(children, startOffset)
        ELSE IF name = "" THEN fallbackPosition
        ELSE IF named = {} THEN fallbackPosition
        ELSE IF isGetter
        THEN MemberPosition(ChildStartOffset(children[relative], startOffset), relative,
                            TRUE, FALSE, TRUE)
        ELSE MemberPosition(ChildEndOffset(children[relative], startOffset), relative,
                            FALSE, TRUE, TRUE)

FindPositionForNewMemberFunction ==
    /\ memberPc = "start"
    /\ memberPosition' = PositionForNewMemberFunction(ownerKind, ownerBody, ownerStartOffset,
                                                      relativeName, relativeIsSetter)
    /\ memberPc' = "done"
    /\ UNCHANGED <<ownerKind, ownerBody, ownerStartOffset, relativeName, relativeIsSetter>>

NextMemberFunction == FindPositionForNewMemberFunction /\ OnlyMemberFunction

\* The items of a body: the access specifiers, two member functions and a field.
MemberItems ==
    {[kind |-> "Function", name |-> "f"], [kind |-> "Function", name |-> "g"],
     [kind |-> "Field", name |-> "v"]}
SpecifierItems == {[kind |-> "specifier", name |-> a] : a \in AccessSpecifiers}

\* Where the symbol starts: at the start of the document, or after a line of it.
StartOffsets == {0, 3}

InitMemberFunction ==
    /\ ownerKind \in {"Class", "Struct", "Namespace"}
    /\ ownerBody \in SeqsUpTo(IF IsClassOrStruct(ownerKind)
                              THEN MemberItems \cup SpecifierItems ELSE MemberItems,
                              MaxMembers)
    /\ ownerStartOffset \in StartOffsets
    /\ relativeName \in {"", "f", "g"}
    /\ relativeIsSetter \in BOOLEAN
    /\ memberPc = "start" /\ memberPosition = None
    /\ IdleButMemberFunction

SpecMemberFunction == InitMemberFunction /\ [][NextMemberFunction]_vars

(***************************************************************************)
(* Properties of findPositionForFunctionDefinition.                        *)
(***************************************************************************)
\* The 0-based index of the declaration among its siblings (-1 when it has none).
DeclIndex == declRange - 1

\* The siblings at most 5 places before the declaration, nearest first.
NearestBefore == [k \in 1..Min(5, DeclIndex) |-> DeclIndex - k]

\* The siblings at most 5 places after the declaration, nearest first.
NearestAfter == [k \in 1..Min(5, Len(siblingSymbols) - 1 - DeclIndex) |-> DeclIndex + k]

\* C1: the sibling lookups are issued one at a time, the before-siblings from the
\* nearest to the farthest and then the after-siblings from the nearest to the
\* farthest; the lookup that yields a definition which resolves to a symbol of the
\* target document is the last one: the operation has returned.
C1_NearestFirstShortCircuit ==
    /\ IsPrefix(queried, NearestBefore \o NearestAfter)
    /\ hit # None =>
          /\ pc = "done"
          /\ queried # <<>>
          /\ queried[Len(queried)] = hit.sibling
          /\ GetSymbol(targetLines, targetSymbols, hit.pos) # None
    /\ (hit = None /\ pc = "done") => returnedAt \notin {"before", "after"}

\* A hit on a before-sibling after two misses, with a farther before-sibling and
\* after-siblings left unqueried.
C1_Witness ==
    /\ hit # None
    /\ hit.side = "before"
    /\ Len(queried) = 3
    /\ hit.sibling > 0
    /\ DeclIndex < Len(siblingSymbols) - 1

\* The siblings the operation may probe.
ProbeWindow ==
    {j \in 0..(Len(siblingSymbols) - 1) :
        j # DeclIndex /\ j >= DeclIndex - 5 /\ j <= DeclIndex + 5}

\* C3: only the at most 5 siblings right before the declaration and the at most 5
\* right after it are probed, never the declaration or a sibling farther away; and
\* when every lookup misses, each of them has been probed.
C3_ProbesFiveEachSide ==
    /\ {queried[i] : i \in 1..Len(queried)} \subseteq ProbeWindow
    /\ pc \in {"namespace", "fallback", "threw"} =>
          {queried[i] : i \in 1..Len(queried)} = ProbeWindow

\* Every lookup missed, with more than 5 siblings on both sides of the declaration.
C3_Witness ==
    /\ pc = "fallback"
    /\ DeclIndex >= 6
    /\ Len(siblingSymbols) - 1 - DeclIndex >= 6
    /\ Len(queried) = 10

\* Position p is position e moved over every semicolon that directly follows it.
PastSemicolons(e, p) ==
    LET line == targetLines[e.line + 1]
    IN  /\ p.line = e.line
        /\ p.character >= e.character
        /\ p.character <= Len(line)
        /\ \A c \in (e.character + 1)..p.character : line[c] = ";"
        /\ p.character < Len(line) => line[p.character + 1] # ";"

\* The symbol of the target document that the lookup resolved to, with the range
\* the provider reported.
HitDefinition == SearchSymbolTree(targetSymbols, hit.pos, 1)

\* C2: a hit on a before-sibling gives the end of the range of its definition in the
\* target document, moved past every semicolon that directly follows, marked
\* `after`; a hit on an after-sibling (no before-sibling hit) gives the start of the
\* range of its definition, marked `before`.
C2_HitPosition ==
    hit # None =>
        /\ hit.side = "before" <=> hit.sibling < DeclIndex
        /\ hit.side = "after" <=> hit.sibling > DeclIndex
        /\ hit.side = "before" =>
              /\ PastSemicolons(HitDefinition.range.end, result.value)
              /\ result.after /\ ~result.before
        /\ hit.side = "after" =>
              /\ result.value = HitDefinition.range.start
              /\ result.before /\ ~result.after
              /\ \A i \in 1..Len(queried) : queried[i] < DeclIndex => queried[i] # hit.sibling

\* A hit on a before-sibling whose definition is followed by two semicolons or more.
C2_Witness ==
    /\ hit # None
    /\ hit.side = "before"
    /\ result.value.character >= HitDefinition.range.end.character + 2

\* The symbols of a tree, at every depth.
RECURSIVE AllSymbols(_)
AllSymbols(symbols) ==
    UNION {{symbols[i]} \cup AllSymbols(symbols[i].children) : i \in 1..Len(symbols)}

\* The namespaces of the target document that match scope i of the declaration.
MatchingNamespaces(i) ==
    IF scopes[i].kind # "Namespace" THEN {}
    ELSE {t \in AllSymbols(targetSymbols) : t.kind = "Namespace" /\ t.name = scopes[i].name}

\* Position p is just after the opening brace of symbol t: the first brace at or
\* after the start of t.
JustAfterOpeningBrace(t, p) ==
    LET text == DocText(targetLines)
        from == OffsetAt(targetLines, t.range.start)
        at == OffsetAt(targetLines, p)
    IN  /\ at > from
        /\ text[at] = "{"
        /\ \A o \in (from + 1)..(at - 1) : text[o] # "{"
        /\ p.character <= Len(targetLines[p.line + 1])

\* C4: when no sibling lookup succeeds, the scopes are visited from the innermost
\* to the outermost and the first namespace that has a match in the target document
\* decides: just after its opening brace, marked nextTo and emptyScope, when the
\* match has no children, after the end of its last child otherwise.  Scopes that
\* are no namespaces or have no match are skipped.
C4_NamespaceFallback ==
    /\ nsUsed # 0 =>
          /\ hit = None
          /\ {queried[i] : i \in 1..Len(queried)} = ProbeWindow
          /\ MatchingNamespaces(nsUsed) # {}
          /\ \A j \in (nsUsed + 1)..Len(scopes) : MatchingNamespaces(j) = {}
          /\ \E t \in MatchingNamespaces(nsUsed) :
                IF t.children = <<>>
                THEN /\ JustAfterOpeningBrace(t, result.value)
                     /\ result.nextTo /\ result.emptyScope
                ELSE /\ PastSemicolons(t.children[Len(t.children)].range.end, result.value)
                     /\ result.after /\ ~result.before
    /\ pc \in {"fallback", "threw"} \/ returnedAt = "lastSymbol" =>
          \A j \in 1..Len(scopes) : MatchingNamespaces(j) = {}

\* The innermost namespace has no match and the outer one, whose match is empty
\* with its brace on the next line, decides.
C4_Witness ==
    /\ nsUsed = 1
    /\ Len(scopes) = 2
    /\ scopes[2].kind = "Namespace"
    /\ result.emptyScope
    /\ result.value.line = 1

\* C5: the operation never raises an exception, and when neither the sibling search
\* nor the namespace search yields a position, the result is the position after the
\* last top-level symbol of the target document.
C5_NeverThrows ==
    /\ pc # "threw"
    /\ pc = "done" /\ returnedAt = "lastSymbol" =>
          /\ targetSymbols # <<>>
          /\ PastSemicolons(targetSymbols[Len(targetSymbols)].range.end, result.value)
          /\ result.after

(***************************************************************************)
(* Properties of findPositionForNewInclude.                                *)
(***************************************************************************)
\* The line is an #include directive of a system header.
IsSystemInclude(line) == MatchesIncludeAngle(Trim(line))

\* The line is an #include directive of a project header.
IsProjectInclude(line) ==
    /\ Trim(line) # <<>>
    /\ Trim(line)[1] = "#include"
    /\ ~IsSystemInclude(line)
    /\ MatchesQuote(line)

\* The blocks of the document: the maximal runs of consecutive lines of one kind,
\* each given by its first and last line.
IncludeBlocks(IsKind(_)) ==
    LET n == Len(incLines)
    IN  {b \in [first : 0..(n - 1), last : 0..(n - 1)] :
            /\ b.first <= b.last
            /\ \A l \in b.first..b.last : IsKind(incLines[l + 1])
            /\ b.first > 0 => ~IsKind(incLines[b.first])
            /\ b.last < n - 1 => ~IsKind(incLines[b.last + 2])}

SystemBlocks == IncludeBlocks(IsSystemInclude)

ProjectBlocks == IncludeBlocks(IsProjectInclude)

\* The blocks with the most lines.
LargestOf(blocks) ==
    {b \in blocks : \A c \in blocks : c.last - c.first <= b.last - b.first}

\* The end of a block: the start of the line that follows it.
BlockEnd(b) == Pos(b.last + 1, 0)

\* Every line the scan takes for an include is an #include directive, and a line
\* that is no include follows every block.
PlainIncludeDocument ==
    /\ \A i \in 1..Len(incLines) :
          MatchesIncludeRegex(incLines[i]) =>
              IsSystemInclude(incLines[i]) \/ IsProjectInclude(incLines[i])
    /\ ~MatchesIncludeRegex(incLines[Len(incLines)])

\* C6: with several separate blocks of system includes, the system position is the
\* end of the largest of them, whatever their order; the same for the blocks of
\* project includes and the project position.
C6_LargestBlockWins ==
    (incPc = "done" /\ PlainIncludeDocument) =>
        /\ Cardinality(SystemBlocks) >= 2 =>
              \E b \in LargestOf(SystemBlocks) : incResult.system = BlockEnd(b)
        /\ Cardinality(ProjectBlocks) >= 2 =>
              \E b \in LargestOf(ProjectBlocks) : incResult.project = BlockEnd(b)

\* C7: when one classification alone has a block, both positions are the end of
\* its largest block; when both have one, each position is the end of the largest
\* block of its own classification.
C7_PositionsCollapse ==
    (incPc = "done" /\ PlainIncludeDocument) =>
        /\ (SystemBlocks # {} /\ ProjectBlocks = {}) =>
              \E b \in LargestOf(SystemBlocks) :
                  incResult.system = BlockEnd(b) /\ incResult.project = BlockEnd(b)
        /\ (ProjectBlocks # {} /\ SystemBlocks = {}) =>
              \E b \in LargestOf(ProjectBlocks) :
                  incResult.system = BlockEnd(b) /\ incResult.project = BlockEnd(b)
        /\ (SystemBlocks # {} /\ ProjectBlocks # {}) =>
              /\ \E b \in LargestOf(SystemBlocks) : incResult.system = BlockEnd(b)
              /\ \E b \in LargestOf(ProjectBlocks) : incResult.project = BlockEnd(b)

\* The non-blank lines strictly before the line on which the first symbol starts;
\* every non-blank line when the document has no symbol.
LinesBeforeFirstSymbol ==
    {l \in 0..(Len(incLines) - 1) :
        /\ ~IsEmptyOrWhitespace(incLines[l + 1])
        /\ incSymbolLines # <<>> => l < incSymbolLines[1]}

\* C8: without a block of includes of either classification, both positions are the
\* end of the last non-blank line before the line on which the first symbol starts,
\* and (0,0) when there is no such line.
C8_BeforeFirstSymbol ==
    (incPc = "done" /\ \A i \in 1..Len(incLines) : ~MatchesIncludeRegex(incLines[i])) =>
        LET expected == IF LinesBeforeFirstSymbol = {} THEN Pos(0, 0)
                        ELSE IncludeLineEnd(incLines,
                                 CHOOSE l \in LinesBeforeFirstSymbol :
                                     \A m \in LinesBeforeFirstSymbol : m <= l)
        IN  incResult.system = expected /\ incResult.project = expected

(***************************************************************************)
(* Properties of findPositionForNewHeaderGuard.                            *)
(***************************************************************************)
\* The indexes from i on that are in a comment of C++, and whether the text ends
\* in a block comment that is not closed, when index i is reached in mode
\* "code", "line" or "block".
RECURSIVE LexComments(_, _, _)
LexComments(text, i, mode) ==
    IF i > Len(text) THEN [inside |-> {}, open |-> mode = "block"]
    ELSE LET two == IF i + 1 <= Len(text) THEN <<text[i], text[i + 1]>> ELSE <<text[i]>>
             With(indexes, rest) == [inside |-> indexes \cup rest.inside, open |-> rest.open]
         IN  CASE mode = "code" ->
                    IF two = <<"/", "/">> THEN With({i, i + 1}, LexComments(text, i + 2, "line"))
                    ELSE IF two = <<"/", "*">>
                         THEN With({i, i + 1}, LexComments(text, i + 2, "block"))
                         ELSE LexComments(text, i + 1, "code")
               [] mode = "line" ->
                    IF text[i] = "\n" THEN LexComments(text, i + 1, "code")
                    ELSE With({i}, LexComments(text, i + 1, "line"))
               [] mode = "block" ->
                    IF two = <<"*", "/">> THEN With({i, i + 1}, LexComments(text, i + 2, "code"))
                    ELSE With({i}, LexComments(text, i + 1, "block"))

\* The indexes of the characters that are neither whitespace nor in a comment.
CodeIndexes(text) ==
    {i \in 1..Len(text) : ~IsWhitespaceChar(text[i])} \ LexComments(text, 1, "code").inside

\* C9: in a text whose block comments are all closed, findPositionForNewHeaderGuard
\* returns, with before set, the position of the first character that is neither
\* whitespace nor in a block or line comment; in a text of whitespace alone it
\* returns the position of offset 0 with neither before nor after set.
C9_SkipsLeadingComments ==
    (hgPc = "done" /\ ~LexComments(hgText, 1, "code").open) =>
        /\ CodeIndexes(hgText) # {} =>
              LET first == CHOOSE i \in CodeIndexes(hgText) : \A j \in CodeIndexes(hgText) : i <= j
              IN  hgResult = [value |-> TextPositionAt(hgText, first - 1),
                              before |-> TRUE, after |-> FALSE]
        /\ (\A i \in 1..Len(hgText) : IsWhitespaceChar(hgText[i])) =>
              hgResult = [value |-> Pos(0, 0), before |-> FALSE, after |-> FALSE]

(***************************************************************************)
(* Properties of hasHeaderGuard.                                           *)
(***************************************************************************)
\* The text, after leading whitespace, starts with `#pragma once`.
StartsWithPragmaOnce ==
    \E lead \in 0..Len(guardTokens), gap \in 1..Len(guardTokens) :
        /\ lead + gap + 2 <= Len(guardTokens)
        /\ \A i \in 1..lead : guardTokens[i] = " "
        /\ guardTokens[lead + 1] = "#pragma"
        /\ \A i \in (lead + 2)..(lead + 1 + gap) : guardTokens[i] = " "
        /\ guardTokens[lead + gap + 2] = "once"
        /\ lead + gap + 3 <= Len(guardTokens) =>
              guardTokens[lead + gap + 3] \in {" ", "#pragma"}

\* A top-level symbol is a Constant named as the header guard.
SomeSymbolIsHeaderGuard ==
    \E i \in 1..Len(guardProvided) :
        guardProvided[i].kind = "Constant" /\ guardProvided[i].name = HeaderGuardDefine

\* The topmost symbol is a Constant named as the header guard.
TopmostSymbolIsHeaderGuard ==
    /\ guardProvided # <<>>
    /\ guardProvided[1].kind = "Constant" /\ guardProvided[1].name = HeaderGuardDefine

\* C10, amended: hasHeaderGuard returns true when the text starts, after leading
\* whitespace, with `#pragma once`, or when any top-level symbol is a Constant
\* whose name is the header guard identifier, and false when neither holds.
C10_HasHeaderGuard ==
    guardPc = "done" => (guardResult <=> (StartsWithPragmaOnce \/ SomeSymbolIsHeaderGuard))

\* A call that returned true for a symbol that is not the topmost one.
C10_Witness ==
    /\ guardPc = "done" /\ guardResult = TRUE
    /\ ~StartsWithPragmaOnce
    /\ ~TopmostSymbolIsHeaderGuard
    /\ SomeSymbolIsHeaderGuard

\* C10 as stated: hasHeaderGuard returns true when the text starts with
\* `#pragma once` or the topmost symbol is a Constant named as the header guard,
\* and false when neither holds.
C10_TopmostSymbolOnly ==
    guardPc = "done" => (guardResult <=> (StartsWithPragmaOnce \/ TopmostSymbolIsHeaderGuard))

(***************************************************************************)
(* Properties of the SourceSymbol constructor.                             *)
(***************************************************************************)
RECURSIVE NodesOf(_)
\* The symbols of a tree.
NodesOf(symbol) ==
    {symbol} \cup UNION {NodesOf(symbol.children[i]) : i \in 1..Len(symbol.children)}

RangeWithin(inner, outer) ==
    PosLeq(outer.start, inner.start) /\ PosLeq(inner.end, outer.end)

TemplateClausesBefore ==
    {i \in 1..Len(textBefore) :
        /\ textBefore[i] = "template"
        /\ i > 1 => ~IsWordToken(textBefore[i - 1])
        /\ \E open \in (i + 1)..Len(textBefore) :
              /\ \A j \in (i + 1)..(open - 1) : textBefore[j] \in {" ", "\n"}
              /\ textBefore[open] = "<"
              /\ LET close == ClosingAngleBracket(textBefore, open + 1, 1)
                 IN  /\ close > open + 1
                     /\ \A j \in (close + 1)..Len(textBefore) : textBefore[j] \in {" ", "\n"}}

\* The brackets open at the end of the first n tokens, -1 when a `>` closes none.
RECURSIVE AngleBracketDepth(_, _)
AngleBracketDepth(tokens, n) ==
    IF n = 0 THEN 0
    ELSE LET depth == AngleBracketDepth(tokens, n - 1)
         IN  IF depth < 0 THEN depth
             ELSE IF tokens[n] = "<" THEN depth + 1
             ELSE IF tokens[n] = ">" THEN depth - 1
             ELSE depth

\* C12: for a text whose angle brackets pair up, getTrueStart returns a position at
\* or before range.start, and range.start itself exactly when no template clause
\* directly precedes the symbol, wherever in the document the clause begins.
C12_TrueStart ==
    (trueStartPc \in {"called", "done"} /\ AngleBracketDepth(textBefore, Len(textBefore)) = 0) =>
        /\ PosLeq(trueStartResult, RangeStart)
        /\ trueStartResult = RangeStart <=> TemplateClausesBefore = {}

(***************************************************************************)
(* Properties of isConstructor.                                            *)
(***************************************************************************)
\* The signature starts with a name, `::` and the same name again, as a whole
\* identifier.
CarriesScopedSelfName(signature) ==
    \E name \in Identifiers :
        LET self == name \o <<":", ":">> \o name
        IN  /\ IsPrefix(self, signature)
            /\ Len(signature) > Len(self) => ~IsWordChar(signature[Len(self) + 1])

\* C13: isConstructor is true for a Constructor, Method or Function named as its
\* parent class, and false for a function without a parent whose signature carries
\* no scope-qualified self-name.
C13_IsConstructor ==
    isConstructorPc = "done" =>
        /\ ( /\ askedSymbol.kind \in {"Constructor", "Method", "Function"}
             /\ askedSymbol.parent # None
             /\ IsClassOrStruct(askedSymbol.parent.kind)
             /\ askedSymbol.name = askedSymbol.parent.name ) => isConstructorResult = TRUE
        /\ ( /\ IsFunctionKind(askedSymbol.kind)
             /\ askedSymbol.parent = None
             /\ ~CarriesScopedSelfName(askedSymbol.signature) ) => isConstructorResult = FALSE

(***************************************************************************)
(* Properties of Setter.create.                                            *)
(***************************************************************************)
\* The type of a member variable as it is written: its leading text without a
\* storage specifier in front.
WrittenType(symbol) ==
    LET leadingText == LeadingText(symbol)
    IN  IF leadingText # <<>> /\ Head(leadingText) \in {"static", "mutable"}
        THEN SubSeq(leadingText, 3, Len(leadingText))
        ELSE leadingText

\* The member variable is declared with a `*` after its type.
DeclaredPointer(symbol) ==
    LET leadingText == LeadingText(symbol)
    IN  leadingText # <<>> /\ leadingText[Len(leadingText)] = "*"

\* C14: the parameter of a setter is the type text followed by `value` when the
\* member is primitive or a pointer, and `const `, the type text, `&` and `value`
\* exactly when it is neither.
C14_SetterParameter ==
    (isPrimitivePc = "done" /\ forSetter) =>
        /\ (isPrimitiveResult.returns \/ DeclaredPointer(asked)) =>
               parameter.text = WrittenType(asked) \o <<"value">>
        /\ (parameter.text = <<"const", " ">> \o WrittenType(asked) \o <<"&", "value">>) <=>
               (~isPrimitiveResult.returns /\ ~DeclaredPointer(asked))

\* A setter for a static member of a type that is neither primitive nor a pointer,
\* and whose template argument is a pointer.
C14_Witness ==
    /\ isPrimitivePc = "done" /\ forSetter
    /\ asked.text = <<"static", " ", "Vec", "<", "S", "*", ">", " ", "x", ";">>
    /\ parameter.text = <<"const", " ", "Vec", "<", "S", "*", ">", " ", "&", "value">>

(***************************************************************************)
(* Properties of isPrimitive.                                              *)
(***************************************************************************)
\* The name of the type a symbol is declared with: the word before the name of a
\* variable or a typedef, the last word of an alias.
NamedType(symbol) ==
    LET words == {i \in 1..Len(symbol.text) :
                      /\ IsWord(symbol.text[i])
                      /\ IF IsTypeAlias(symbol) THEN TRUE ELSE i < symbol.nameIndex}
    IN  symbol.text[CHOOSE i \in words : \A j \in words : j <= i]

\* The symbol is a typedef or an alias of a name that is itself declared as a
\* typedef or an alias.
NamesAlias(symbol) ==
    /\ symbol # None
    /\ IsTypedef(symbol) \/ IsTypeAlias(symbol)
    /\ NamedType(symbol) \in TypeNames
    /\ declared[NamedType(symbol)] # None

\* Foo and Bar are declared as each other.
MutuallyReferential ==
    /\ NamesAlias(declared["Foo"]) /\ NamedType(declared["Foo"]) = "Bar"
    /\ NamesAlias(declared["Bar"]) /\ NamedType(declared["Bar"]) = "Foo"

\* Following the names from the symbol leaves the typedefs and aliases within
\* `steps` declarations.
RECURSIVE ChainEnds(_, _)
ChainEnds(symbol, steps) ==
    IF ~(NamedType(symbol) \in TypeNames /\ declared[NamedType(symbol)] # None) THEN TRUE
    ELSE IF steps = 0 THEN FALSE
    ELSE ChainEnds(declared[NamedType(symbol)], steps - 1)

IsPrimitiveReturned == isPrimitivePc \in {"create", "done"}

\* C15: with resolveTypes enabled, isPrimitive on a typedef or alias of a mutually
\* referential pair never produces a result, and isPrimitive on an acyclic chain
\* of aliases eventually produces one.
C15_Termination ==
    /\ (~forSetter /\ MutuallyReferential) => [](~IsPrimitiveReturned)
    /\ ChainEnds(asked, Cardinality(TypeNames)) => <>IsPrimitiveReturned
\* The keywords of the built-in types match the type text of the symbol: the
\* leading text of a variable, the text of a typedef or an alias.
DirectLexicalMatch(symbol) ==
    LET typeText == IF IsVariable(symbol) THEN LeadingText(symbol) ELSE symbol.text
    IN  /\ IsVariable(symbol) \/ IsTypedef(symbol) \/ IsTypeAlias(symbol)
        /\ \E i \in 1..Len(typeText) : typeText[i] \in PrimitiveTypes
        /\ \A i \in 1..Len(typeText) : typeText[i] \notin {"<", ">"}

\* C16: for a symbol with no direct lexical match, isPrimitive with type resolution
\* disabled returns false and never asks the navigation; with type resolution
\* enabled it returns true when the last target found is an Enum, false when the
\* lookup missed or found another kind, and what isPrimitive of the target gives
\* when the target might be a typedef or an alias.
C16_ResolvedType ==
    /\ ~resolveTypes => (lookups = 0 /\ isPrimitivePc # "resolve")
    /\ (IsPrimitiveReturned /\ ~DirectLexicalMatch(asked)) =>
           IF ~resolveTypes \/ lookups = 0 THEN ~isPrimitiveResult.returns
           ELSE IF lastTarget = None THEN ~isPrimitiveResult.returns
           ELSE IF lastTarget.kind = "Enum" THEN isPrimitiveResult.returns
           ELSE IF MightBeTypedefOrTypeAlias(lastTarget)
                THEN \* the call on the target returned without a lookup
                     isPrimitiveResult.returns = DirectLexicalMatch(lastTarget)
                ELSE ~isPrimitiveResult.returns

\* A member of type Foo, Foo a typedef of the enum E: two lookups, and true.
C16_Witness ==
    /\ IsPrimitiveReturned /\ resolveTypes /\ ~DirectLexicalMatch(asked)
    /\ asked.text = <<"Foo", " ", "x", ";">>
    /\ lookups = 2 /\ lastTarget = EnumSymbol
    /\ isPrimitiveResult.returns

\* A member of type Foo, Foo a typedef of Bar and Bar a typedef of int: the call on
\* the last target returns true without a lookup.
C16_WitnessRecursive ==
    /\ IsPrimitiveReturned /\ resolveTypes /\ ~DirectLexicalMatch(asked)
    /\ lookups = 2 /\ lastTarget # None /\ IsTypedef(lastTarget)
    /\ DirectLexicalMatch(lastTarget) /\ isPrimitiveResult.returns
(***************************************************************************)
(* Properties of updateSignature.                                          *)
(***************************************************************************)
\* The linked symbol is of the form opposite to that of the current function.
OppositeForm(changed, linked) ==
    IF IsFunctionDeclaration(changed) THEN IsFunctionDefinition(linked)
    ELSE IsFunctionDeclaration(linked)

\* C17: when the symbol at the linked location is absent, is not of the opposite
\* form or has another name than the current function, updateSignature raises one
\* error alert, returns undefined, and hands no edit to applyEdit.
C17_LinkedFunctionMismatch ==
    (/\ updateSignaturePc = "done"
     /\ \/ symbolAtLinkedLocation = None
        \/ ~OppositeForm(currentFunction, symbolAtLinkedLocation)
        \/ symbolAtLinkedLocation.name # currentFunction.name) =>
        /\ Len(alerts) = 1
        /\ updateSignatureResult = [returns |-> None]
        /\ appliedEdits = <<>>

\* A definition of f linked to a declaration of g: the alert, no edit.
C17_Witness ==
    /\ updateSignaturePc = "done"
    /\ IsFunctionDefinition(currentFunction)
    /\ symbolAtLinkedLocation # None /\ IsFunctionDeclaration(symbolAtLinkedLocation)
    /\ symbolAtLinkedLocation.name # currentFunction.name
    /\ alerts = <<"The linked declaration could not be found.">>
(***************************************************************************)
(* Properties of the lazy loading of the symbols.                          *)
(***************************************************************************)
\* C18: in every interleaving of the operations on one SourceDocument the provider
\* is called at most once and this.symbols, once set, is not assigned again.
C18_AssignedAtMostOnce == providerCalls <= 1 /\ replacements = 0
(***************************************************************************)
(* Properties of formatTextToInsert.                                       *)
(***************************************************************************)
\* C19: for a position with neither before nor after nor indent set,
\* formatTextToInsert returns the text to insert as it is, on every line of the
\* document.
C19_Verbatim ==
    (/\ formatPc = "done"
     /\ ~formatPosition.before /\ ~formatPosition.after /\ ~formatPosition.indent) =>
        formattedText.text = insertText
(***************************************************************************)
(* Properties of newFunctionDeclaration and newFunctionDefinition.         *)
(***************************************************************************)
\* The tokens have no whitespace at their end and are `shorter` followed by
\* whitespace only.
IsTrimmedEndOf(tokens, shorter) ==
    /\ Len(shorter) <= Len(tokens)
    /\ SubSeq(tokens, 1, Len(shorter)) = shorter
    /\ \A i \in (Len(shorter) + 1)..Len(tokens) : IsSpace(tokens[i])
    /\ shorter = <<>> \/ ~IsSpace(shorter[Len(shorter)])

\* C20: newFunctionDeclaration returns the empty string for a symbol that is no
\* function definition and newFunctionDefinition returns it for a symbol that is
\* no function declaration; for a definition newFunctionDeclaration returns the
\* text from trueStart to bodyStart without the whitespace at its end, and `;`.
C20_NewFunctionText ==
    /\ (newDeclaration # None /\ ~IsFunctionDefinition(functionSymbol)) =>
           newDeclaration.text = <<>>
    /\ (newDefinition # None /\ ~IsFunctionDeclaration(functionSymbol)) =>
           newDefinition.text = <<>>
    /\ (newDeclaration # None /\ IsFunctionDefinition(functionSymbol)) =>
           LET returned == newDeclaration.text
           IN  /\ returned # <<>> /\ returned[Len(returned)] = ";"
               /\ IsTrimmedEndOf(DeclarationText(functionSymbol, textBeforeFunction),
                                 SubSeq(returned, 1, Len(returned) - 1))

\* A definition after a template clause, its body on the next line: the declaration
\* starts at the clause and ends before the end of line.
C20_Witness ==
    /\ newDeclaration # None /\ newDefinition # None
    /\ IsFunctionDefinition(functionSymbol)
    /\ newDeclaration.text =
           <<"template", "<", "T", ">", " ", "int", " ", "f", "(", ")", ";">>
    /\ functionSymbol.text = <<"int", " ", "f", "(", ")", "\n", "{", "}">>
    /\ newDefinition.text = <<>>

(***************************************************************************)
(* Properties of formatDeclarationForNewDefinition.                        *)
(***************************************************************************)
\* The declaration formatDeclarationForNewDefinition works on, its parentheses
\* masked, and the index of the name in it.
MaskedDeclarationOf(symbol, preceding) ==
    LET text == DeclarationText(symbol, preceding)
    IN  MaskParentheses(IF text # <<>> /\ text[Len(text)] = ";"
                        THEN SubSeq(text, 1, Len(text) - 1) ELSE text, 0)

NameIndexInDeclaration(symbol, preceding) ==
    Len(preceding) + symbol.nameIndex - TrueStartIndex(preceding) + 1

\* The parameter list can be located: there is an opening parenthesis after the
\* name and there is a closing parenthesis.
ParameterListLocated(symbol, preceding) ==
    LET masked == MaskedDeclarationOf(symbol, preceding)
    IN  /\ \E i \in (NameIndexInDeclaration(symbol, preceding) + 1)..Len(masked) :
               masked[i] = "("
        /\ \E i \in 1..Len(masked) : masked[i] = ")"

\* C21: formatDeclarationForNewDefinition returns the empty string whenever no
\* opening parenthesis is found after the name of the symbol or no closing
\* parenthesis is found in the masked declaration.
C21_EmptyWithoutParameterList ==
    (/\ newDefinition # None
     /\ IsFunctionDeclaration(functionSymbol)
     /\ ~ParameterListLocated(functionSymbol, textBeforeFunction))
        => newDefinition.text = <<>>

\* The part of C21 the code does keep: without a closing parenthesis the result
\* is the empty string.
C21_EmptyWithoutClosingParenthesis ==
    (/\ newDefinition # None
     /\ IsFunctionDeclaration(functionSymbol)
     /\ \A i \in 1..Len(MaskedDeclarationOf(functionSymbol, textBeforeFunction)) :
            MaskedDeclarationOf(functionSymbol, textBeforeFunction)[i] # ")")
        => newDefinition.text = <<>>

(***************************************************************************)
(* Properties of stripDefaultValues.                                       *)
(***************************************************************************)
\* The declarators of the parameters, in their order, separated as the
\* parameters were.
RECURSIVE DeclaratorsText(_)
DeclaratorsText(given) ==
    IF given = <<>> THEN <<>>
    ELSE Head(given).declarator
             \o (IF Len(given) = 1 THEN <<>> ELSE <<",", " ">> \o DeclaratorsText(Tail(given)))

\* `int a = 1, std::vector<int> b = {1,2}, int c`
ExampleParameters ==
    <<[declarator |-> <<"int", " ", "a">>, spacing |-> <<" ">>,
       value |-> [tokens |-> <<" ", "1">>]],
      [declarator |-> <<"std::vector", "<", "int", ">", " ", "b">>, spacing |-> <<" ">>,
       value |-> [tokens |-> <<" ", "{", "1", ",", "2", "}">>]],
      [declarator |-> <<"int", " ", "c">>, spacing |-> <<" ">>, value |-> None]>>

\* `int a, std::vector<int> b, int c`
ExampleStripped ==
    <<"int", " ", "a", ",", " ", "std::vector", "<", "int", ">", " ", "b", ",", " ",
      "int", " ", "c">>

\* C22: stripDefaultValues keeps the number and the order of the top-level
\* parameters, returns a parameter without default value unchanged and a
\* parameter with a default value up to its top-level `=`, trailing whitespace
\* removed, whatever commas and equals-signs the parameters hold inside
\* parentheses, brackets, braces, angle brackets, quotes or comments; the
\* example of the specification yields `int a, std::vector<int> b, int c`; and
\* applying it twice gives what applying it once gives.
C22_StripDefaultValues ==
    /\ strippedOnce # None =>
           /\ strippedOnce.text = DeclaratorsText(givenParameters)
           /\ givenParameters = ExampleParameters => strippedOnce.text = ExampleStripped
    /\ strippedTwice # None => strippedTwice.text = strippedOnce.text

\* The example has been stripped, once and twice.
C22_Witness ==
    /\ givenParameters = ExampleParameters
    /\ ParametersText(givenParameters) =
           <<"int", " ", "a", " ", "=", " ", "1", ",", " ",
             "std::vector", "<", "int", ">", " ", "b", " ", "=", " ", "{", "1", ",", "2", "}",
             ",", " ", "int", " ", "c">>
    /\ strippedOnce # None /\ strippedOnce.text = ExampleStripped
    /\ strippedTwice # None /\ strippedTwice.text = ExampleStripped

\* A list whose parameters hold commas and equals-signs inside a comment, inside
\* parentheses and inside quotes has been stripped.
C22_WitnessMasked ==
    /\ Len(givenParameters) = MaxParameters
    /\ givenParameters[1].declarator[Len(givenParameters[1].declarator)] = "*/"
    /\ givenParameters[2].value # None /\ givenParameters[2].value.tokens[2] = "g"
    /\ givenParameters[3].value # None /\ givenParameters[3].value.tokens[2] = "\""
    /\ strippedTwice # None

(***************************************************************************)
(* Properties of the separation formatTextToInsert puts between the anchor *)
(* and the text.                                                           *)
(***************************************************************************)
\* The number of tokens at the start of the text that are ends of line.
RECURSIVE LeadingEndsOfLine(_)
LeadingEndsOfLine(tokens) ==
    IF tokens = <<>> \/ Head(tokens) # EndOfLine THEN 0
    ELSE 1 + LeadingEndsOfLine(Tail(tokens))

\* The number of ends of line at the end of the text, the indentation that
\* follows them left aside.
RECURSIVE TrailingEndsOfLine(_)
TrailingEndsOfLine(tokens) ==
    IF tokens = <<>> THEN 0
    ELSE IF tokens[Len(tokens)] = IndentationUnit
         THEN TrailingEndsOfLine(SubSeq(tokens, 1, Len(tokens) - 1))
    ELSE IF tokens[Len(tokens)] = EndOfLine
         THEN 1 + LeadingEndsOfLine(Reverse(SubSeq(tokens, 1, Len(tokens) - 1)))
         ELSE 0

\* The ends of line between the anchor and the inserted text: before the text
\* when it goes after the anchor, after the text when it goes before the anchor.
SeparatingEndsOfLine ==
    IF formatPosition.after THEN LeadingEndsOfLine(formattedText.text)
    ELSE TrailingEndsOfLine(formattedText.text)

\* The text to insert has words at both ends, and it goes either before or after
\* the anchor.
PlainInsertion ==
    /\ insertText # <<>>
    /\ Head(insertText) \notin {EndOfLine, IndentationUnit}
    /\ insertText[Len(insertText)] \notin {EndOfLine, IndentationUnit}
    /\ formatPosition.after # formatPosition.before

\* C23: formatTextToInsert separates the inserted text from the anchor by exactly
\* one end of line whenever nextTo is set, and by two ends of line (a blank
\* line) whenever nextTo is not set and an adjacent line exists on the side of
\* the insertion.
C23_Separation ==
    (formattedText # None /\ PlainInsertion) =>
        /\ formatPosition.nextTo => SeparatingEndsOfLine = 1
        /\ (~formatPosition.nextTo
              /\ NextLineOf(formatPosition, Len(formatDocument)) # None)
               => SeparatingEndsOfLine = 2

\* What the code does: one end of line with nextTo, without adjacent line, and
\* next to a line that is not blank and is not the brace of the scope; two next
\* to a blank line or that brace; and one more when the text goes before an
\* anchor on the last line of the document.
C23_SeparationOfTheCode ==
    (formattedText # None /\ PlainInsertion) =>
        LET nextLine == NextLineOf(formatPosition, Len(formatDocument))
            content == formatDocument[nextLine.line + 1].content
            two == /\ ~formatPosition.nextTo
                   /\ nextLine # None
                   /\ content \in {"", IF formatPosition.after THEN "}" ELSE "{"}
            onLastLine == formatPosition.before /\ formatPosition.line = Len(formatDocument) - 1
        IN  SeparatingEndsOfLine
                = (IF two THEN 2 ELSE 1) + (IF onLastLine THEN 1 ELSE 0)

(***************************************************************************)
(* Properties of getLeadingCommentStart.                                   *)
(***************************************************************************)
\* The last of the lines above that is not blank, 0 when all are blank.
LastLineAbove ==
    LET holding == {l \in 1..Len(linesAbove) : \E i \in 1..Len(linesAbove[l]) : linesAbove[l][i] # " "}
    IN  IF holding = {} THEN 0 ELSE CHOOSE l \in holding : \A k \in holding : k <= l

\* The text above the symbol ends, whitespace aside, with a line of line comment.
EndsWithLineComments == LastLineAbove > 0 /\ StartsWithLineComment(linesAbove[LastLineAbove])

\* The topmost line of the run of line-comment lines that ends the text above.
TopOfCommentRun ==
    LET tops == {r \in 1..LastLineAbove :
                    \A l \in r..LastLineAbove : StartsWithLineComment(linesAbove[l])}
    IN  CHOOSE r \in tops : \A k \in tops : r <= k

\* No comment ends the text above the symbol.
NoCommentAbove ==
    LastLineAbove = 0
        \/ \A i \in 1..Len(linesAbove[LastLineAbove]) :
               linesAbove[LastLineAbove][i] \notin CommentDelimiters

\* C24: when the text before trueStart ends, whitespace aside, with contiguous
\* line comments, getLeadingCommentStart returns the start of the comment on the
\* topmost line of that run, also when the run begins on the first line of the
\* document; when no comment precedes the symbol it returns trueStart; and the
\* result is never after trueStart.
C24_LeadingCommentStart ==
    leadingCommentResult # None =>
        /\ EndsWithLineComments =>
               leadingCommentResult
                   = Pos(TopOfCommentRun - 1, IndexOfLineComment(linesAbove[TopOfCommentRun]))
        /\ NoCommentAbove => leadingCommentResult = TrueStartBelow(linesAbove)
        /\ PosLeq(leadingCommentResult, TrueStartBelow(linesAbove))

\* The part of C24 the code keeps: the run of line comments is right above the
\* symbol and does not begin on the first line of the document.
C24_RunBelowFirstLine ==
    leadingCommentResult # None =>
        /\ (EndsWithLineComments /\ LastLineAbove = Len(linesAbove) /\ TopOfCommentRun > 1) =>
               leadingCommentResult
                   = Pos(TopOfCommentRun - 1, IndexOfLineComment(linesAbove[TopOfCommentRun]))
        /\ NoCommentAbove => leadingCommentResult = TrueStartBelow(linesAbove)
        /\ PosLeq(leadingCommentResult, TrueStartBelow(linesAbove))

\* The run of line comments begins on the first line of the document and ends
\* right above the symbol: the code returns trueStart.
C24_RunFromFirstLine ==
    (/\ leadingCommentResult # None
     /\ EndsWithLineComments /\ LastLineAbove = Len(linesAbove) /\ TopOfCommentRun = 1)
        => leadingCommentResult = TrueStartBelow(linesAbove)

(***************************************************************************)
(* Properties of bodyStart.                                                *)
(***************************************************************************)
\* The indexes of the unmasked `{` after the name of the symbol.
BracesAfterName ==
    LET maskedText == MaskParentheses(functionSymbol.text, 0)
    IN  {j \in (functionSymbol.nameIndex + 1)..Len(maskedText) : maskedText[j] = "{"}

FirstBraceAfterName == CHOOSE j \in BracesAfterName : \A k \in BracesAfterName : j <= k

\* The indexes of the top-level `:` between the name and that `{` that are not
\* part of a `::`.
ColonsBeforeBody ==
    LET maskedText == MaskParentheses(functionSymbol.text, 0)
    IN  {j \in (functionSymbol.nameIndex + 1)..(FirstBraceAfterName - 1) :
            /\ maskedText[j] = ":"
            /\ maskedText[j - 1] # ":"
            /\ maskedText[j + 1] # ":"}

FirstColonBeforeBody == CHOOSE j \in ColonsBeforeBody : \A k \in ColonsBeforeBody : j <= k

\* The symbol or the declaration given to bodyStart is a constructor.
OfConstructor ==
    functionSymbol.isConstructor \/ (counterpart # None /\ counterpart.isConstructor)

\* Index i is index j, or only whitespace lies between i and j.
AtOrInSpaceBefore(i, j) ==
    i <= j /\ \A k \in i..(j - 1) : IsSpace(functionSymbol.text[k])

\* C25: bodyStart returns the position of the first unmasked `{` after the name
\* of the symbol; when the symbol or the declaration given is a constructor and
\* a top-level `:` that is not part of `::` lies between the name and that `{`,
\* it returns the position of that `:`; without unmasked `{` it returns
\* range.end; and the result lies between selectionRange.end and range.end.
C25_BodyStart ==
    bodyStartResult # None =>
        /\ BracesAfterName = {} => bodyStartResult.index = Len(functionSymbol.text) + 1
        /\ (BracesAfterName # {} /\ ~(OfConstructor /\ ColonsBeforeBody # {})) =>
               bodyStartResult.index = FirstBraceAfterName
        /\ (BracesAfterName # {} /\ OfConstructor /\ ColonsBeforeBody # {}) =>
               bodyStartResult.index = FirstColonBeforeBody
        /\ functionSymbol.nameIndex + 1 <= bodyStartResult.index
        /\ bodyStartResult.index <= Len(functionSymbol.text) + 1

\* C25 read with the whitespace before `{` and before `:` counted to them.
C25_BodyStartAsideWhitespace ==
    bodyStartResult # None =>
        /\ BracesAfterName = {} => bodyStartResult.index = Len(functionSymbol.text) + 1
        /\ (BracesAfterName # {} /\ ~(OfConstructor /\ ColonsBeforeBody # {})) =>
               AtOrInSpaceBefore(bodyStartResult.index, FirstBraceAfterName)
        /\ (BracesAfterName # {} /\ OfConstructor /\ ColonsBeforeBody # {}) =>
               AtOrInSpaceBefore(bodyStartResult.index, FirstColonBeforeBody)
        /\ functionSymbol.nameIndex + 1 <= bodyStartResult.index
        /\ bodyStartResult.index <= Len(functionSymbol.text) + 1

\* What the code keeps of it: the text has no `::`, and the name is followed by
\* a token other than whitespace, `{` and `:`.
C25_BodyStartKept ==
    (/\ bodyStartResult # None
     /\ \A j \in 1..(Len(functionSymbol.text) - 1) :
            ~(functionSymbol.text[j] = ":" /\ functionSymbol.text[j + 1] = ":")
     /\ functionSymbol.nameIndex < Len(functionSymbol.text) =>
            functionSymbol.text[functionSymbol.nameIndex + 1] \notin {"{", ":", " ", "\n"})
        => C25_BodyStartAsideWhitespace

\* A constructor with a `::` before its body: bodyStart returns the index of the
\* second colon.
C25_SecondColonOfScopeOperator ==
    (/\ bodyStartResult # None
     /\ OfConstructor
     /\ BracesAfterName # {}
     /\ \E j \in (functionSymbol.nameIndex + 2)..(FirstBraceAfterName - 1) :
            functionSymbol.text[j - 1] = ":" /\ functionSymbol.text[j] = ":")
        => /\ functionSymbol.text[bodyStartResult.index] = ":"
           /\ functionSymbol.text[bodyStartResult.index - 1] = ":"

(***************************************************************************)
(* Properties of provideCodeActions.                                       *)
(***************************************************************************)
\* The commands of each family of refactorings.
FamilyCommands ==
    [declaration |-> {"cmantic.addDefinition"},
     definition |-> {"cmantic.moveDefinitionToMatchingSourceFile",
                     "cmantic.moveDefinitionIntoOrOutOfClass"},
     memberVariable |-> {"cmantic.generateGetterSetterFor", "cmantic.generateGetterFor",
                         "cmantic.generateSetterFor"},
     none |-> {}]

\* The commands of the refactorings returned.
OfferedCommands == {refactorings.actions[i].command : i \in 1..Len(refactorings.actions)}

\* C26: isFunctionDeclaration and isFunctionDefinition are never both true;
\* exactly one of them is true when the symbol is a function and both are false
\* otherwise; a function whose detail is "declaration" is a declaration even
\* when its text ends with `}`; and getRefactorings offers the refactorings of
\* exactly one family: those of declarations, of definitions, of member
\* variables, or none.
C26_OneFamily ==
    (selectedSymbol # None /\ selectedSymbol.found) =>
        LET symbol == selectedSymbol.symbol
        IN  /\ ~(IsFunctionDeclaration(symbol) /\ IsFunctionDefinition(symbol))
            /\ IsFunction(symbol) => (IsFunctionDeclaration(symbol) \/ IsFunctionDefinition(symbol))
            /\ ~IsFunction(symbol) => (~IsFunctionDeclaration(symbol) /\ ~IsFunctionDefinition(symbol))
            /\ (IsFunction(symbol) /\ symbol.detail = "declaration") => IsFunctionDeclaration(symbol)
            /\ refactorings # None =>
                   /\ OfferedCommands = FamilyCommands[refactorings.family]
                   /\ refactorings.family = "declaration" <=> IsFunctionDeclaration(symbol)
                   /\ refactorings.family = "definition" <=> IsFunctionDefinition(symbol)
                   /\ refactorings.family = "memberVariable" <=> IsMemberVariable(symbol)

\* getRefactorings has returned the refactorings of a declaration for a function
\* whose detail is "declaration" and whose text ends with `}`.
C26_Witness ==
    /\ selectedSymbol # None /\ selectedSymbol.found
    /\ IsFunction(selectedSymbol.symbol)
    /\ selectedSymbol.symbol.detail = "declaration"
    /\ EndsWithBrace(selectedSymbol.symbol)
    /\ refactorings # None /\ refactorings.family = "declaration"
    /\ Len(refactorings.actions) = 2

\* getRefactorings has returned the refactorings of a definition.
C26_WitnessDefinition ==
    /\ selectedSymbol # None /\ selectedSymbol.found
    /\ refactorings # None /\ refactorings.family = "definition"
    /\ IsFunctionDefinition(selectedSymbol.symbol)

\* C28: the `Add Header Guard` action is offered enabled exactly when the
\* document is a header file and hasHeaderGuard resolves to false.
C28_AddHeaderGuardEnabled ==
    sourceActions # None =>
        (sourceActions.actions[1].disabled = ""
            <=> (documentIsHeader /\ ~guardResolved.value))

\* What the code does: the action is never enabled.
C28_AddHeaderGuardNeverEnabled ==
    sourceActions # None =>
        /\ sourceActions.actions[1].command = "cmantic.addHeaderGuard"
        /\ sourceActions.actions[1].disabled = "headerGuardExists"

\* C29: for a function declaration, `Add Definition in matching source file` is
\* enabled exactly when the document is a header, a matching source file
\* exists, the declaration is neither inline nor constexpr and no definition
\* exists; `Add Definition in this file` is enabled exactly when no definition
\* exists; and both actions are returned, in that order.
C29_AddDefinitionEnabled ==
    (refactorings # None /\ refactorings.family = "declaration") =>
        LET symbol == selectedSymbol.symbol
            actions == refactorings.actions
        IN  /\ Len(actions) = 2
            /\ actions[1].command = "cmantic.addDefinition" /\ actions[1].target = "matchingUri"
            /\ actions[2].command = "cmantic.addDefinition" /\ actions[2].target = "sourceDoc.uri"
            /\ actions[1].disabled = ""
                   <=> /\ documentIsHeader
                       /\ hasMatchingUri
                       /\ ~LeadingTextHas(symbol, "inline")
                       /\ ~LeadingTextHas(symbol, "constexpr")
                       /\ ~navigation.existingDefinition
            /\ actions[2].disabled = "" <=> ~navigation.existingDefinition

\* The two actions have been returned for a declaration without definition in a
\* header with a matching source file, the first one enabled.
C29_Witness ==
    /\ refactorings # None /\ refactorings.family = "declaration"
    /\ documentIsHeader /\ hasMatchingUri /\ ~navigation.existingDefinition
    /\ refactorings.actions[1].disabled = "" /\ refactorings.actions[2].disabled = ""

\* They have been returned for an inline declaration whose definition exists:
\* both are disabled.
C29_WitnessDisabled ==
    /\ refactorings # None /\ refactorings.family = "declaration"
    /\ LeadingTextHas(selectedSymbol.symbol, "inline") /\ navigation.existingDefinition
    /\ refactorings.actions[1].disabled # "" /\ refactorings.actions[2].disabled # ""

(***************************************************************************)
(* Properties of findPositionForNewMemberFunction.                         *)
(***************************************************************************)
MemberFunctionReturned == memberPc = "done"
OwnerHasChildren == Len(MemberChildren(ownerBody)) > 0

\* C27: findPositionForNewMemberFunction returns undefined whenever the symbol is
\* not a class or struct and whenever it has no children, and returns a position for
\* a class or struct with children.
C27_UndefinedOutsideClassOrStruct ==
    MemberFunctionReturned =>
        /\ ~IsClassOrStruct(ownerKind) => memberPosition = None
        /\ ~OwnerHasChildren => memberPosition = None
        /\ IsClassOrStruct(ownerKind) /\ OwnerHasChildren => memberPosition # None

\* What the code does instead: the kind of the symbol decides nothing, a position
\* is returned exactly when the symbol has children.
C27_PositionWhenChildren ==
    MemberFunctionReturned => (memberPosition # None <=> OwnerHasChildren)

\* A namespace with children was asked and a position returned.
C27_NamespaceGetsPosition ==
    /\ MemberFunctionReturned /\ ownerKind = "Namespace" /\ OwnerHasChildren
    /\ memberPosition # None

\* A class with a public member function next to the name asked for was given the
\* position before it.
C27_ClassGetsPositionNextTo ==
    /\ MemberFunctionReturned /\ IsClassOrStruct(ownerKind)
    /\ memberPosition # None /\ memberPosition.nextTo /\ memberPosition.before

(***************************************************************************)
(* Properties of the blocks findPositionForNewInclude counts.              *)
(***************************************************************************)
IsIncludeDirective(line) == IsSystemInclude(line) \/ IsProjectInclude(line)

DocumentHasInclude == \E i \in 1..Len(incLines) : IsIncludeDirective(incLines[i])

\* The lines from the line of start up to, not including, line last are #include
\* directives.
OnlyIncludesBetween(start, last) ==
    \A l \in start.line..(last - 1) : IsIncludeDirective(incLines[l + 1])

\* A block of either classification was counted.
SomeBlockCounted == largestSystemIncludeBlock # None \/ largestProjectIncludeBlock # None

\* The first half of C30: the document holds an #include directive, so a block was
\* counted and the positions are not those of the document without includes.
C30_TrailingBlockCounted ==
    (incPc = "done" /\ DocumentHasInclude) => SomeBlockCounted

\* The second half of C30: the blocks counted and the blocks open hold #include
\* directives only.
C30_OnlyIncludesInBlocks ==
    /\ systemIncludeStart # None => OnlyIncludesBetween(systemIncludeStart, incI)
    /\ projectIncludeStart # None => OnlyIncludesBetween(projectIncludeStart, incI)
    /\ largestSystemIncludeBlock # None =>
          OnlyIncludesBetween(largestSystemIncludeBlock.start,
                              largestSystemIncludeBlock.end.line)
    /\ largestProjectIncludeBlock # None =>
          OnlyIncludesBetween(largestProjectIncludeBlock.start,
                              largestProjectIncludeBlock.end.line)

\* C30: a block of include lines that runs to the last line of the document is
\* counted as a block like any other, so a document with an #include line never
\* gets the positions of the document without includes; and a line that is not an
\* #include directive never starts or extends a block.
C30_IncludeBlocks == C30_TrailingBlockCounted /\ C30_OnlyIncludesInBlocks

\* What the code does with a block that runs to the last line: nothing closes it,
\* and a document that is such a block alone gets the positions of the document
\* without includes.
C30_TrailingBlockDropped ==
    (incPc = "done" /\ \A i \in 1..Len(incLines) : IsSystemInclude(incLines[i])) =>
        /\ ~SomeBlockCounted
        /\ incResult = PositionWithoutIncludes(incLines, incSymbolLines)

\* What the code does with a line that ends in a string literal: it opens a block
\* of project includes, which the next line of code closes.
C30_StringLiteralCounted ==
    (/\ incPc = "done" /\ Len(incLines) = 2
     /\ incLines[1] = StringTailLine /\ incLines[2] = CodeLine) =>
        largestProjectIncludeBlock = Rng(Pos(0, 0), Pos(1, 0))

=============================================================================
